---- MODULE Spec2Model ----
(***************************************************************************)
(* Calculation orchestration engine of lex-app.                            *)
(*                                                                         *)
(*   lex_models/calculated_model.py  CalculatedModelMixin.create,          *)
(*                                   calc_and_save_sync,                   *)
(*                                   delete_models_with_same_defining_...  *)
(*   celery_tasks.py                 calc_and_save, lex_shared_task,       *)
(*                                   CeleryCalculationContext, CallbackTask*)
(*   lex_models/CalculationModel.py  calculate_hook,                       *)
(*                                   execute_calculation_sync              *)
(*   rest_api/context.py             OperationContext                      *)
(*                                                                         *)
(* The module holds several specifications over one set of variables; each *)
(* specification drives one part of the engine and leaves the variables of *)
(* the other parts at their idle values.                                   *)
(***************************************************************************)
EXTENDS Integers, Sequences, FiniteSets, TLC

(***************************************************************************)
(* Bounds                                                                  *)
(***************************************************************************)
MaxKeys == 2        \* longest list of selected keys per defining field
MaxCandidates == 6  \* largest candidate set a create() call expands to
MaxCycles == 2      \* dispatch cycles one runner goes through
MaxTasks == 2       \* calc_and_save tasks handed to the transport for one row
MaxRequests == 2    \* client requests served for one row

(***************************************************************************)
(* Entities                                                                *)
(***************************************************************************)
None == "None"                      \* Python None as an attribute value
NoPk == 0                           \* pk of an instance that was never saved
Values == {"a", "b"}                \* values a defining field can take
FieldNames == {"f1", "f2", "f3"}

\* defining_fields of a subclass that declares identity fields, and the
\* choices modelled: that one and the mixin's default, the empty list
DeclaredFields == <<"f1", "f2", "f3">>
DefiningChoices == {<<>>, DeclaredFields}

\* cls(): a fresh instance, no field set, not saved, not calculated
NewModel == [f1 |-> None, f2 |-> None, f3 |-> None, pk |-> NoPk, val |-> 0]

\* setattr(model, field_name, fk)
SetAttr(m, f, v) ==
  CASE f = "f1" -> [m EXCEPT !.f1 = v]
    [] f = "f2" -> [m EXCEPT !.f2 = v]
    [] f = "f3" -> [m EXCEPT !.f3 = v]

\* getattr(model, field_name, None)
GetAttr(m, f) ==
  CASE f = "f1" -> m.f1
    [] f = "f2" -> m.f2
    [] f = "f3" -> m.f3
    [] OTHER -> None


Range(s) == {s[i] : i \in 1..Len(s)}

RECURSIVE _flatten(_)
_flatten(list_2d) ==
  IF list_2d = <<>> THEN <<>> ELSE Head(list_2d) \o _flatten(Tail(list_2d))

RECURSIVE Product(_)
Product(ns) == IF ns = <<>> THEN 1 ELSE Head(ns) * Product(Tail(ns))

\* all sequences over S of length at most n
SeqsUpTo(S, n) == UNION {[1..k -> S] : k \in 0..n}

VARIABLES
  \* ---- the entity class
  defining_fields,        \* class attribute defining_fields
  \* ---- create(): inputs
  args,                   \* extra positional arguments given by the caller
  kwargs,                 \* field name -> list of values given by the caller
  selected_key_list,      \* field name -> get_selected_key_list(field)
  parallelizable_fields,  \* class attribute of the modelled subclass
  CELERY_ACTIVE,          \* settings.CELERY_ACTIVE
  faulty,                 \* identity keys on which calculate() raises
  \* ---- create(): working state
  pc,                     \* position inside create()
  candidates,             \* models as they left the expansion loop
  models,                 \* the list `models`
  cluster_dict,           \* the dict built by the partitioning loop
  groups,                 \* add_to_group(cluster_dict, [])
  \* ---- persistence
  storage,                \* set of persisted rows
  nextPk,                 \* next value of the AutoField sequence
  nCalc,                  \* number of calculate() calls made so far
  calcLog,                \* the calculate() calls of create(): who, on which model
  \* ---- concurrent dispatch cycles on single entities
  procs,                  \* per cycle runner: position, entity, bookkeeping
  \* ---- the status hook of one CalculationModel row
  klass,                  \* what the subclass declares: calculate(), task_id
  db,                     \* persisted is_calculated of the row
  tasks,                  \* calc_and_save tasks handed to the transport
  attempts,               \* attempts that ended inside the latest step
  scheduled,              \* number of calculate_hook runs in the latest step
  persistLog,             \* statuses the latest step wrote to the row, in order
  notifyLog,              \* statuses the latest step sent to the observers
  requests,               \* number of client requests served
  \* ---- create(): routing in distributed mode
  gi,                     \* index of the next group of the dispatch loop
  task_results,           \* the tasks sent: group, pickled models, state
  fallback,               \* how the local re-run of the failed groups ended
  \* ---- correlation context across the worker boundary
  operation_context,      \* thread -> value of the ContextVar operation_context
  model_stack,            \* thread -> stack of entities being computed
  model_context,          \* the worker's _model_context.get()['model_context']
  nextOperation,          \* serial of the next uuid4() operation id
  cpc,                    \* position of the calling operation
  inflight,               \* task messages sent and not yet taken by the worker
  wpc,                    \* position of the worker
  current,                \* the message the worker is processing, if any
  \* ---- RunInCelery blocks of the threads of one process
  task_context_stack,     \* the list in the default value of tasks_context
  entered,                \* thread -> the blocks it is inside, innermost last
  run_in_celery,          \* block -> the RunInCelery object made for it
  lastCall                \* the latest direct call of a lex_shared_task, if any

createVars == <<defining_fields, args, kwargs, selected_key_list, parallelizable_fields,
                CELERY_ACTIVE, faulty, pc, candidates, models, cluster_dict,
                groups>>
storeVars == <<storage, nextPk, nCalc, calcLog>>
saveVars == <<procs>>
hookVars == <<klass, db, tasks, attempts, scheduled, persistLog, notifyLog,
              requests>>
routeVars == <<gi, task_results, fallback>>
ctxVars == <<operation_context, model_stack, model_context, nextOperation, cpc,
             inflight, wpc, current>>
blockVars == <<task_context_stack, entered, run_in_celery, lastCall>>
vars == <<createVars, storeVars, saveVars, hookVars, routeVars, ctxVars,
          blockVars>>
\* what create() leaves alone before it routes
outsideCreate == <<saveVars, hookVars, routeVars, ctxVars, blockVars>>
\* what a dispatch cycle on one entity leaves alone
outsideSave == <<createVars, hookVars, routeVars, ctxVars, blockVars>>
\* what the status hook leaves alone
outsideHook == <<createVars, storeVars, saveVars, routeVars, ctxVars, blockVars>>
\* what the routing of create() leaves alone
outsideRoute == <<saveVars, hookVars, ctxVars, blockVars>>
\* what the correlation context leaves alone
outsideCtx == <<createVars, storeVars, saveVars, hookVars, routeVars, blockVars>>
\* what the RunInCelery blocks leave alone
outsideBlocks == <<createVars, storeVars, saveVars, hookVars, routeVars, ctxVars>>

\* the tuple of defining-field values: the identity key of an entity
KeyOf(m) == [i \in 1..Len(defining_fields) |-> GetAttr(m, defining_fields[i])]


(***************************************************************************)
(* create(): expansion (calculated_model.py 85-103)                        *)
(***************************************************************************)
\* sorted(cls.defining_fields, key=lambda x: 0 if x in kwargs.keys() else 1):
\* a stable sort, the fields given by the caller first
ordered_defining_fields(kw) ==
  SelectSeq(defining_fields, LAMBDA f : f \in DOMAIN kw)
    \o SelectSeq(defining_fields, LAMBDA f : f \notin DOMAIN kw)

\* kwargs[field_name] if the caller gave the field, else
\* model.get_selected_key_list(field_name)
selected_keys(kw, skl, field_name) ==
  IF field_name \in DOMAIN kw THEN kw[field_name] ELSE skl[field_name]

\* j_temp_models with the last selected key left out
j_temp_models_short(model, field_name, keys) ==
  [j \in 1..(Len(keys) - 1) |-> SetAttr(model, field_name, keys[j])]

\* one deepcopy of the model per selected key, the key set on the copy
j_temp_models(model, field_name, keys) ==
  [j \in 1..Len(keys) |-> SetAttr(model, field_name, keys[j])]

\* one pass of the outer loop: every model is replaced by its copies
ExpandField(ms, field_name, kw, skl) ==
  _flatten([i \in 1..Len(ms) |->
              j_temp_models(ms[i], field_name, selected_keys(kw, skl, field_name))])

RECURSIVE ExpandFields(_, _, _, _)
ExpandFields(ms, fields, kw, skl) ==
  IF fields = <<>> THEN ms
  ELSE ExpandFields(ExpandField(ms, Head(fields), kw, skl), Tail(fields), kw, skl)

\* models = [cls()] followed by the loop over ordered_defining_fields
Expansion(kw, skl) ==
  ExpandFields(<<NewModel>>, ordered_defining_fields(kw), kw, skl)

(***************************************************************************)
(* Conflict resolver (calculated_model.py 225-237)                         *)
(***************************************************************************)
\* type(self).objects.filter(**filter_keys)
filtered_objects(m, st) == {r \in st : KeyOf(r) = KeyOf(m)}

\* The body of the resolver after its first query, filtered_objects.count(),
\* has returned c1; the later queries (first(), the second count()) see st.
\* It returns the stored instance when c1 = 1, self when the second count
\* is 0, and raises otherwise.  It deletes nothing.  [raised, model, storage]
Resolve_deleting(m, c1, st) ==
  LET fo == filtered_objects(m, st) IN
  IF c1 = 1
  THEN [raised |-> FALSE, model |-> m, storage |-> st \ fo]
  ELSE IF Cardinality(fo) = 0 THEN [raised |-> FALSE, model |-> m, storage |-> st]
  ELSE [raised |-> TRUE, model |-> m, storage |-> st]

Resolve_strict(m, c1, st) ==
  LET fo == filtered_objects(m, st) IN
  IF c1 = 1 /\ fo # {}
  THEN [raised |-> FALSE, model |-> CHOOSE r \in fo : TRUE, storage |-> st]
  ELSE [raised |-> TRUE, model |-> m, storage |-> st]

Resolve_picking(m, c1, st) ==
  LET fo == filtered_objects(m, st) IN
  IF fo = {} THEN [raised |-> FALSE, model |-> m, storage |-> st]
  ELSE [raised |-> FALSE, model |-> CHOOSE r \in fo : TRUE, storage |-> st]

Resolve(m, c1, st) ==
  LET fo == filtered_objects(m, st) IN
  IF c1 = 1
  THEN IF fo = {} THEN [raised |-> TRUE, model |-> m, storage |-> st]  \* first() is None
       ELSE [raised |-> FALSE, model |-> CHOOSE r \in fo : TRUE, storage |-> st]
  ELSE IF Cardinality(fo) = 0 THEN [raised |-> FALSE, model |-> m, storage |-> st]
  ELSE [raised |-> TRUE, model |-> m, storage |-> st]

\* a resolver that takes a stored row without filtering on the identity
delete_models_with_same_defining_fields_unfiltered(m, st) ==
  IF st = {} THEN [raised |-> FALSE, model |-> m, storage |-> st]
  ELSE [raised |-> FALSE, model |-> CHOOSE r \in st : TRUE, storage |-> st]

\* the resolver when nothing else touches storage between its queries
delete_models_with_same_defining_fields(m, st) ==
  Resolve(m, Cardinality(filtered_objects(m, st)), st)

\* create() 115-119: every model is replaced by what the resolver returns
\* [ms, st, raised]
RECURSIVE ReconcileFrom(_, _, _)
ReconcileFrom(ms, st, i) ==
  IF i > Len(ms) THEN [ms |-> ms, st |-> st, raised |-> FALSE]
  ELSE LET r == delete_models_with_same_defining_fields(ms[i], st) IN
       IF r.raised THEN [ms |-> ms, st |-> r.storage, raised |-> TRUE]
       ELSE ReconcileFrom([ms EXCEPT ![i] = r.model], r.storage, i + 1)

ReconcileAll(ms, st) == ReconcileFrom(ms, st, 1)

(***************************************************************************)
(* create(): partitioning (calculated_model.py 122-143)                    *)
(*                                                                         *)
(* A Python dict is a sequence of entries in insertion order.  An entry of *)
(* cluster_dict is [k, t, d, l]: key k, t = "dict" with the inner dict d,  *)
(* or t = "list" with the list l of model indexes.  An inner dict only     *)
(* ever gets lists as values (line 130 creates dicts in cluster_dict       *)
(* only), so its entries are [k, l].                                       *)
(***************************************************************************)
Has(d, k) == \E i \in 1..Len(d) : d[i].k = k
Idx(d, k) == CHOOSE i \in 1..Len(d) : d[i].k = k

\* d[k] = v on a dict: an existing key keeps its place, a new one is appended
Put(d, e) == IF Has(d, e.k) THEN [d EXCEPT ![Idx(d, e.k)] = e] ELSE Append(d, e)

EmptyDictEntry(k) == [k |-> k, t |-> "dict", d |-> <<>>, l |-> <<>>]
ListEntry(k, l) == [k |-> k, t |-> "list", d |-> <<>>, l |-> l]

\* What local_dict refers to:
\*   top      cluster_dict itself
\*   sub      the inner dict stored at cluster_dict[k]
\*   det      an inner dict that line 130 has replaced in cluster_dict while
\*            local_dict still refers to it (its content is d)
\*   list     a list (local_dict = local_dict[attribute] hit a list)
LocalTop == [r |-> "top", k |-> None, d |-> <<>>]
LocalSub(k) == [r |-> "sub", k |-> k, d |-> <<>>]
LocalDet(d) == [r |-> "det", k |-> None, d |-> d]
LocalList == [r |-> "list", k |-> None, d |-> <<>>]

\* the keys of local_dict, as a dict of the inner shape or of the top shape
LocalContent(top, local) ==
  CASE local.r = "top" -> top
    [] local.r = "sub" -> top[Idx(top, local.k)].d
    [] local.r = "det" -> local.d

\* lines 125-130 for one parallel field: [top, local, crash]
ClusterDescend(top, local, attribute) ==
  IF local.r = "list"
  THEN [top |-> top, local |-> local, crash |-> TRUE]    \* list has no keys()
  ELSE IF Has(LocalContent(top, local), attribute)
  THEN \* local_dict = local_dict[attribute]
       [top |-> top, crash |-> FALSE,
        local |-> IF local.r = "top" /\ top[Idx(top, attribute)].t = "dict"
                  THEN LocalSub(attribute) ELSE LocalList]
  ELSE \* cluster_dict[attribute] = {}   (cluster_dict, not local_dict)
       [top |-> Put(top, EmptyDictEntry(attribute)), crash |-> FALSE,
        local |-> IF local.r = "sub" /\ local.k = attribute
                  THEN LocalDet(top[Idx(top, attribute)].d) ELSE local]

\* lines 131-135: [top, crash]
ClusterLeaf(top, local, attribute, i) ==
  IF local.r = "list" THEN [top |-> top, crash |-> TRUE]
  ELSE IF local.r = "top"
  THEN IF Has(top, attribute)
       THEN LET e == top[Idx(top, attribute)] IN
            IF e.t = "dict" THEN [top |-> top, crash |-> TRUE]  \* dict has no append()
            ELSE [top |-> Put(top, ListEntry(attribute, Append(e.l, i))), crash |-> FALSE]
       ELSE [top |-> Append(top, ListEntry(attribute, <<i>>)), crash |-> FALSE]
  ELSE IF local.r = "sub"
  THEN LET j == Idx(top, local.k)
           d == top[j].d
           nd == IF Has(d, attribute)
                 THEN [d EXCEPT ![Idx(d, attribute)].l = Append(@, i)]
                 ELSE Append(d, [k |-> attribute, l |-> <<i>>])
       IN [top |-> [top EXCEPT ![j].d = nd], crash |-> FALSE]
  ELSE \* the model goes into a dict that cluster_dict no longer holds
       [top |-> top, crash |-> FALSE]

\* the inner loop over cls.parallelizable_fields[:-1], then the leaf
RECURSIVE ClusterWalk(_, _, _, _, _, _)
ClusterWalk(top, local, m, i, pf, j) ==
  IF j >= Len(pf)
  THEN ClusterLeaf(top, local, IF Len(pf) > 0 THEN GetAttr(m, pf[Len(pf)]) ELSE None, i)
  ELSE LET s == ClusterDescend(top, local, GetAttr(m, pf[j])) IN
       IF s.crash THEN [top |-> s.top, crash |-> TRUE]
       ELSE ClusterWalk(s.top, s.local, m, i, pf, j + 1)

\* the loop "for model in models": [top, crash]
RECURSIVE ClusterFrom(_, _, _, _)
ClusterFrom(top, ms, pf, i) ==
  IF i > Len(ms) THEN [top |-> top, crash |-> FALSE]
  ELSE LET s == ClusterWalk(top, LocalTop, ms[i], i, pf, 1) IN
       IF s.crash THEN s ELSE ClusterFrom(s.top, ms, pf, i + 1)

Clustering(ms, pf) == ClusterFrom(<<>>, ms, pf, 1)

\* add_to_group(cluster_dict, []): the leaf lists, in dict order
add_to_group(top) ==
  _flatten([i \in 1..Len(top) |->
              IF top[i].t = "dict"
              THEN [j \in 1..Len(top[i].d) |-> top[i].d[j].l]
              ELSE <<top[i].l>>])


(***************************************************************************)
(* Persistence: Model.save() under the constraint the metaclass declares   *)
(***************************************************************************)
\* CalculatedModelMixinMeta.__new__ (calculated_model.py 41-44): one
\* UniqueConstraint over defining_fields, when there are any
constraints_none == {}
constraints == IF Len(defining_fields) # 0 THEN {defining_fields} ELSE {}

\* no other row agrees with m on all fields of a constraint
UniqueOk(m, st) ==
  \A c \in constraints :
    ~ \E r \in st : /\ r.pk # m.pk
                    /\ \A i \in 1..Len(c) : GetAttr(r, c[i]) = GetAttr(m, c[i])

\* model.save(): UPDATE the row with the instance's pk, INSERT when the
\* instance has no pk (or no such row exists); IntegrityError when the
\* constraint is violated.  [ok, model, storage, nextPk]
Save(m, st, npk) ==
  IF ~ UniqueOk(m, st)
  THEN [ok |-> FALSE, model |-> m, storage |-> st, nextPk |-> npk]
  ELSE IF m.pk # NoPk
  THEN [ok |-> TRUE, model |-> m,
        storage |-> {r \in st : r.pk # m.pk} \cup {m}, nextPk |-> npk]
  ELSE LET saved == [m EXCEPT !.pk = npk] IN
       [ok |-> TRUE, model |-> saved, storage |-> st \cup {saved}, nextPk |-> npk + 1]

(***************************************************************************)
(* calc_and_save_sync (calculated_model.py 19-30)                          *)
(***************************************************************************)
\* model.calculate(*args): derives the remaining attributes; val is the
\* serial number of the computation that produced them
calculate(m, n) == [m EXCEPT !.val = n]

\* the loop body for models[i], on S = [ms, st, npk, nc, log, raised]
SyncOne(S, i, flt) ==
  LET m0 == S.ms[i]
      n == S.nc + 1
      S1 == [S EXCEPT !.nc = n, !.log = Append(@, [i |-> i, by |-> "local", args |-> args])]
  IN
  IF KeyOf(m0) \in flt
  THEN [S1 EXCEPT !.raised = TRUE]                       \* calculate() raised
  ELSE
    LET m1 == calculate(m0, n)
        r1 == Save(m1, S.st, S.npk)
    IN
    IF r1.ok
    THEN [S1 EXCEPT !.ms[i] = r1.model, !.st = r1.storage, !.npk = r1.nextPk]
    ELSE \* except Exception: adopt the pk of the stored row and save again
      LET old == delete_models_with_same_defining_fields(m1, S.st) IN
      IF old.raised THEN [S1 EXCEPT !.ms[i] = m1, !.st = old.storage, !.raised = TRUE]
      ELSE LET m2 == [m1 EXCEPT !.pk = old.model.pk]
               r2 == Save(m2, old.storage, S.npk)
           IN IF r2.ok
              THEN [S1 EXCEPT !.ms[i] = r2.model, !.st = r2.storage, !.npk = r2.nextPk]
              ELSE [S1 EXCEPT !.ms[i] = m2, !.raised = TRUE]

\* for model in models: ...   over the model indexes in `order`
RECURSIVE calc_and_save_sync(_, _, _)
calc_and_save_sync(S, order, flt) ==
  IF order = <<>> \/ S.raised THEN S
  ELSE calc_and_save_sync(SyncOne(S, Head(order), flt), Tail(order), flt)

\* the state calc_and_save_sync works on
SyncState == [ms |-> models, st |-> storage, npk |-> nextPk, nc |-> nCalc,
              log |-> calcLog, raised |-> FALSE]

AllModels == [i \in 1..Len(models) |-> i]


(***************************************************************************)
(* Dispatch cycles on one entity each, run concurrently.                   *)
(*                                                                         *)
(* A cycle is what create() and the executor do for one candidate:         *)
(* reconcile it (create() 115-119), then compute and save it, either by    *)
(* calc_and_save_sync (calculated_model.py 23-30) or by the calc_and_save  *)
(* task on a worker (celery_tasks.py 635-680).  Every database query is    *)
(* one step; cycles of different runners interleave between queries.       *)
(***************************************************************************)
Procs == {"w1", "w2"}

\* identity keys the cycles work on
CycleKeys ==
  IF defining_fields = <<>> THEN {<<>>} ELSE {<<"a", "a", "a">>, <<"b", "a", "a">>}

\* the candidate for key k: cls() with its defining fields set
RECURSIVE SetKey(_, _, _)
SetKey(m, k, i) ==
  IF i > Len(defining_fields) THEN m
  ELSE SetKey(SetAttr(m, defining_fields[i], k[i]), k, i + 1)

ModelWithKey(k) == SetKey(NewModel, k, 1)

\* p is between the start and the end of a cycle
InCycle(p) == procs[p].pc \notin {"idle", "done", "raised"}

\* pk of the row stored under key k, NoPk when there is none
StoredPk(k, st) ==
  IF \E r \in st : KeyOf(r) = k THEN (CHOOSE r \in st : KeyOf(r) = k).pk ELSE NoPk

\* prior, calcNo, conflict and overlap are bookkeeping for the properties:
\* pk of the row found when the cycle began, serial of the cycle's
\* calculate(), whether a save hit the constraint, whether another cycle ran
\* during this one
IdleProc == [pc |-> "idle", model |-> NewModel, path |-> "sync", c1 |-> 0,
             prior |-> NoPk, calcNo |-> 0, conflict |-> FALSE,
             overlap |-> FALSE, cycles |-> 0]

IdleSave == procs = [p \in Procs |-> IdleProc]

\* a cycle starts: the candidate as expansion builds it
Begin(p) ==
  /\ procs[p].pc \in {"idle", "done", "raised"}
  /\ procs[p].cycles < MaxCycles
  /\ \E k \in CycleKeys, path \in {"sync", "remote"} :
       procs' = [q \in Procs |->
                   IF q = p
                   THEN [pc |-> "reconcile", model |-> ModelWithKey(k),
                         path |-> path, c1 |-> 0,
                         prior |-> StoredPk(k, storage), calcNo |-> 0,
                         conflict |-> FALSE,
                         overlap |-> \E o \in Procs \ {p} : InCycle(o),
                         cycles |-> procs[p].cycles + 1]
                   ELSE IF InCycle(q) THEN [procs[q] EXCEPT !.overlap = TRUE]
                   ELSE procs[q]]
  /\ UNCHANGED <<outsideSave, storeVars>>

\* filtered_objects.count() == 1, the first query of the resolver (line 230)
CountMatches(p) ==
  /\ procs[p].pc \in {"reconcile", "s_lookup", "r_lookup"}
  /\ procs' = [procs EXCEPT
                 ![p].c1 = Cardinality(filtered_objects(procs[p].model, storage)),
                 ![p].pc = CASE procs[p].pc = "reconcile" -> "reconcile2"
                             [] procs[p].pc = "s_lookup" -> "s_lookup2"
                             [] procs[p].pc = "r_lookup" -> "r_lookup2"]
  /\ UNCHANGED <<outsideSave, storeVars>>

\* create() 116-119: models[i] = model.delete_models_with_same_defining_fields()
Reconcile(p) ==
  /\ procs[p].pc = "reconcile2"
  /\ LET r == Resolve(procs[p].model, procs[p].c1, storage) IN
       /\ storage' = r.storage
       /\ procs' = [procs EXCEPT
                      ![p].model = r.model,
                      ![p].pc = IF r.raised THEN "raised"
                                ELSE IF procs[p].path = "sync" THEN "s_calc"
                                ELSE "r_save1"]
  /\ UNCHANGED <<outsideSave, nextPk, nCalc, calcLog>>

\* calc_and_save_sync line 24: model.calculate(*args)
SyncCalc(p) ==
  /\ procs[p].pc = "s_calc"
  /\ nCalc' = nCalc + 1
  /\ IF KeyOf(procs[p].model) \in faulty
     THEN procs' = [procs EXCEPT ![p].pc = "raised"]
     ELSE procs' = [procs EXCEPT ![p].model = calculate(@, nCalc + 1),
                                 ![p].calcNo = nCalc + 1,
                                 ![p].pc = "s_save"]
  /\ UNCHANGED <<outsideSave, storage, nextPk, calcLog>>

\* calc_and_save_sync line 26: model.save()
SyncSave(p) ==
  /\ procs[p].pc = "s_save"
  /\ LET r == Save(procs[p].model, storage, nextPk) IN
       /\ storage' = r.storage
       /\ nextPk' = r.nextPk
       /\ procs' = [procs EXCEPT ![p].model = r.model,
                                 ![p].pc = IF r.ok THEN "done" ELSE "s_lookup",
                                 ![p].conflict = @ \/ ~ r.ok]
  /\ UNCHANGED <<outsideSave, nCalc, calcLog>>

\* calc_and_save_sync lines 28-29: adopt the pk of what the resolver returns
SyncAdopt(p) ==
  /\ procs[p].pc = "s_lookup2"
  /\ LET r == Resolve(procs[p].model, procs[p].c1, storage) IN
       /\ storage' = r.storage
       /\ procs' = [procs EXCEPT
                      ![p].model.pk = IF r.raised THEN @ ELSE r.model.pk,
                      ![p].pc = IF r.raised THEN "raised" ELSE "s_resave"]
  /\ UNCHANGED <<outsideSave, nextPk, nCalc, calcLog>>

\* calc_and_save_sync line 30: the second model.save(); a failure propagates
SyncResave(p) ==
  /\ procs[p].pc = "s_resave"
  /\ LET r == Save(procs[p].model, storage, nextPk) IN
       /\ storage' = r.storage
       /\ nextPk' = r.nextPk
       /\ procs' = [procs EXCEPT ![p].model = r.model,
                                 ![p].pc = IF r.ok THEN "done" ELSE "raised"]
  /\ UNCHANGED <<outsideSave, nCalc, calcLog>>

\* calc_and_save line 638: model.save() before the computation
RemoteSave1(p) ==
  /\ procs[p].pc = "r_save1"
  /\ LET r == Save(procs[p].model, storage, nextPk) IN
       /\ storage' = r.storage
       /\ nextPk' = r.nextPk
       /\ procs' = [procs EXCEPT ![p].model = r.model,
                                 ![p].pc = IF r.ok THEN "r_calc" ELSE "r_lookup",
                                 ![p].conflict = @ \/ ~ r.ok]
  /\ UNCHANGED <<outsideSave, nCalc, calcLog>>

\* calc_and_save line 639: model.calculate()
RemoteCalc(p) ==
  /\ procs[p].pc = "r_calc"
  /\ nCalc' = nCalc + 1
  /\ IF KeyOf(procs[p].model) \in faulty
     THEN procs' = [procs EXCEPT ![p].pc = "raised"]
     ELSE procs' = [procs EXCEPT ![p].model = calculate(@, nCalc + 1),
                                 ![p].calcNo = nCalc + 1,
                                 ![p].pc = "r_save2"]
  /\ UNCHANGED <<outsideSave, storage, nextPk, calcLog>>

\* calc_and_save line 643: model.save() after the computation
RemoteSave2(p) ==
  /\ procs[p].pc = "r_save2"
  /\ LET r == Save(procs[p].model, storage, nextPk) IN
       /\ storage' = r.storage
       /\ nextPk' = r.nextPk
       /\ procs' = [procs EXCEPT ![p].model = r.model,
                                 ![p].pc = IF r.ok THEN "done" ELSE "r_lookup",
                                 ![p].conflict = @ \/ ~ r.ok]
  /\ UNCHANGED <<outsideSave, nCalc, calcLog>>

\* existing_model != model, Django Model.__eq__: the same instance, or equal
\* pks that are not None
ModelEq_always(existing, model, isSelf) == TRUE
ModelEq(existing, model, isSelf) ==
  isSelf \/ (model.pk # NoPk /\ existing.pk = model.pk)

\* calc_and_save lines 651-662 on IntegrityError: take the pk of the stored
\* row, or reset the pk for a fresh insert
RemoteResolve(p) ==
  /\ procs[p].pc = "r_lookup2"
  /\ LET m == procs[p].model
         r == Resolve(m, procs[p].c1, storage)
         isSelf == r.model = m /\ filtered_objects(m, storage) = {}
     IN
       /\ storage' = r.storage
       /\ procs' = [procs EXCEPT
                      ![p].model.pk =
                         IF r.raised THEN @
                         ELSE IF ~ ModelEq(r.model, m, isSelf) /\ r.model.pk # NoPk
                         THEN r.model.pk ELSE NoPk,
                      ![p].pc = IF r.raised THEN "raised" ELSE "r_resave"]
  /\ UNCHANGED <<outsideSave, nextPk, nCalc, calcLog>>

\* calc_and_save line 665: the single save after conflict resolution
RemoteResave(p) ==
  /\ procs[p].pc = "r_resave"
  /\ LET r == Save(procs[p].model, storage, nextPk) IN
       /\ storage' = r.storage
       /\ nextPk' = r.nextPk
       /\ procs' = [procs EXCEPT ![p].model = r.model,
                                 ![p].pc = IF r.ok THEN "done" ELSE "raised"]
  /\ UNCHANGED <<outsideSave, nCalc, calcLog>>

(***************************************************************************)
(* The status hook of a CalculationModel row (CalculationModel.py), the    *)
(* client requests that save the row (One.py) and the calc_and_save task   *)
(* a worker runs on it (celery_tasks.py).                                  *)
(*                                                                         *)
(* A save() runs its hooks before it returns, so a request is one step; a  *)
(* task is four steps (save, calculate, save, callback) that interleave    *)
(* with requests and with other tasks.                                     *)
(***************************************************************************)
NOT_CALCULATED == "NOT_CALCULATED"
IN_PROGRESS == "IN_PROGRESS"
ERROR == "ERROR"
SUCCESS == "SUCCESS"
ABORTED == "ABORTED"
NoRow == "NO_ROW"                   \* db when the row is not in storage
STATUSES == {IN_PROGRESS, ERROR, SUCCESS, NOT_CALCULATED, ABORTED}

\* what the environment does during one calculate_hook run: the probe
\* current_app.control.inspect() passes, delay() reaches the transport,
\* update() raises, the two observer notifications get through
HookEnv == [probe : BOOLEAN, send : BOOLEAN, updateRaises : BOOLEAN,
            notify1 : BOOLEAN, notify2 : BOOLEAN]

\* subclasses differ in whether they define calculate() and a task_id field,
\* and in whether they opt out of atomic execution (is_atomic = False); the
\* opt-out is explored for the subclass without calculate() and task_id
Klasses ==
  {k \in [calculate : BOOLEAN, task_id : BOOLEAN, is_atomic : BOOLEAN] :
     ~ k.is_atomic => ~ k.calculate /\ ~ k.task_id}

\* the state a hook run works on: the instance's is_calculated, the row, the
\* transport, the logs, what update() has written of its results to storage
\* (derived: none, partial, all), and whether an exception is propagating
HookState(status) ==
  [status |-> status, db |-> db, tasks |-> tasks, attempts |-> {},
   scheduled |-> 0, persistLog |-> <<>>, notifyLog |-> <<>>,
   derived |-> "none", raised |-> FALSE]

\* self.save(skip_hooks=True): the row takes the instance's status
save_skip_hooks(H) ==
  [H EXCEPT !.db = H.status, !.persistLog = Append(@, H.status)]

\* update_calculation_status(instance) (signals.py 27-51): group_send to the
\* channel layer, which raises when the layer cannot be reached
update_calculation_status(H, delivered) ==
  IF delivered THEN [H EXCEPT !.notifyLog = Append(@, H.status)]
  ELSE [H EXCEPT !.raised = TRUE]

\* CalculationModel.should_use_celery (59-80)
should_use_celery(e) == CELERY_ACTIVE /\ e.probe

\* the environments that differ in something the run gets to see: the probe
\* is consulted only when CELERY_ACTIVE, delay() only after a passed probe,
\* update() only when nothing is dispatched, the second notification only
\* after an exception
HookEnvs ==
  {e \in HookEnv :
     /\ ~ CELERY_ACTIVE => e.probe
     /\ ~ should_use_celery(e) => e.send
     /\ should_use_celery(e) => ~ e.updateRaises /\ e.notify1
     /\ should_use_celery(e) /\ e.send => e.notify2
     /\ ~ should_use_celery(e) /\ ~ e.updateRaises /\ e.notify1 => e.notify2}

\* a save of an instance that is not IN_PROGRESS runs no hook
EnvsFor(status) ==
  IF status = IN_PROGRESS THEN HookEnvs ELSE {CHOOSE e \in HookEnvs : TRUE}

\* dispatch_calculation_task (82-101): calc_and_save.delay([self], ...), the
\* task carries a copy of the instance as it is now; probed tells whether
\* the probe of should_use_celery had passed when delay() was called
dispatch_calculation_task(H, e) ==
  IF e.send
  THEN [H EXCEPT
          !.tasks = Append(@, [status |-> H.status, pc |-> "queued",
                               computeRaised |-> FALSE, notifyRaised |-> FALSE,
                               final |-> "open", probed |-> e.probe])]
  ELSE [H EXCEPT !.raised = TRUE]

\* self.update(): the subclass writes its results to storage, all of them,
\* or a part of them before it raises
update(H, e) ==
  IF e.updateRaises THEN [H EXCEPT !.derived = "partial", !.raised = TRUE]
  ELSE [H EXCEPT !.derived = "all"]

\* with transaction.atomic(): an exception that leaves the block takes the
\* writes made inside it back
transaction_atomic(before, after) ==
  IF after.raised
  THEN [after EXCEPT !.db = before.db, !.derived = before.derived]
  ELSE after

execute_calculation_sync_aborting(H, e) ==
  LET body == IF klass.is_atomic THEN transaction_atomic(H, update(H, e))
              ELSE update(H, e)
      ran == IF body.raised THEN [body EXCEPT !.status = ABORTED]
             ELSE [body EXCEPT !.status = SUCCESS]
  IN update_calculation_status(save_skip_hooks(ran), e.notify1)

\* execute_calculation_sync (103-137): update(), the status it leads to, and
\* the finally block: save(skip_hooks=True), then the notification
execute_calculation_sync(H, e) ==
  LET body == IF klass.is_atomic THEN transaction_atomic(H, update(H, e))
              ELSE update(H, e)
      ran == IF body.raised THEN [body EXCEPT !.status = ERROR]
             ELSE [body EXCEPT !.status = SUCCESS]
  IN update_calculation_status(save_skip_hooks(ran), e.notify1)

\* calculate_hook (139-201): dispatch or run in place; on any exception set
\* ERROR, save(skip_hooks=True), notify, re-raise
calculate_hook(H, e) ==
  LET H0 == [H EXCEPT !.scheduled = @ + 1]
      tried ==
        IF should_use_celery(e)
        THEN LET d == dispatch_calculation_task(H0, e) IN
               IF ~ d.raised /\ klass.task_id THEN save_skip_hooks(d) ELSE d
        ELSE execute_calculation_sync(H0, e)
      handled ==
        IF tried.raised
        THEN [update_calculation_status(
                save_skip_hooks([tried EXCEPT !.status = ERROR]), e.notify2)
              EXCEPT !.raised = TRUE]
        ELSE tried
  IN
    IF should_use_celery(e) /\ e.send THEN handled
    ELSE [handled EXCEPT
            !.attempts =
               @ \cup {[mode |-> IF should_use_celery(e) THEN "unsent" ELSE "sync",
                        computeRaised |-> ~ should_use_celery(e) /\ e.updateRaises,
                        computeReturned |->
                          ~ should_use_celery(e) /\ ~ e.updateRaises,
                        notifyRaised |->
                          \/ ~ should_use_celery(e) /\ ~ e.notify1
                          \/ tried.raised /\ ~ e.notify2,
                        derived |-> handled.derived,
                        final |-> handled.db]}]

\* save(): write the row, then the AFTER_UPDATE hooks whose condition holds;
\* WhenFieldValueIs("is_calculated", IN_PROGRESS) looks at the value the
\* instance has now
save_with_hooks(H, e) ==
  LET written == save_skip_hooks(H) IN
    IF written.status = IN_PROGRESS THEN calculate_hook(written, e) ELSE written

\* the variables take what a hook run left
Commit(H) ==
  /\ db' = H.db
  /\ tasks' = H.tasks
  /\ attempts' = H.attempts
  /\ scheduled' = H.scheduled
  /\ persistLog' = H.persistLog
  /\ notifyLog' = H.notifyLog

\* One.update with calculate=true (One.py 80-87): IN_PROGRESS is written with
\* skip_hooks and notified, then UpdateModelMixin.update saves the row as read
\* back from storage
RequestCalculate ==
  /\ requests < MaxRequests
  /\ db # NoRow
  /\ \E e \in HookEnvs, delivered \in BOOLEAN :
       LET marked == update_calculation_status(
                       save_skip_hooks(HookState(IN_PROGRESS)), delivered)
           H == IF marked.raised THEN marked
                ELSE save_with_hooks([marked EXCEPT !.status = marked.db], e)
       IN Len(H.tasks) <= MaxTasks /\ Commit(H)
  /\ requests' = requests + 1
  /\ UNCHANGED <<klass, outsideHook>>

\* One.update without calculate (One.py 87): UpdateModelMixin.update saves the
\* row as read from storage
RequestEdit ==
  /\ requests < MaxRequests
  /\ db # NoRow
  /\ \E e \in EnvsFor(db) :
       LET H == save_with_hooks(HookState(db), e) IN
         Len(H.tasks) <= MaxTasks /\ Commit(H)
  /\ requests' = requests + 1
  /\ UNCHANGED <<klass, outsideHook>>

\* One.create (One.py 35-68): CreateModelMixin.create saves the new instance
\* inside transaction.atomic(), with the status its first save carries (the
\* default, or IN_PROGRESS where the serializer or the subclass sets it); an
\* exception that leaves the save rolls back every write of the block, the
\* INSERT included, while what went to the transport and to the channel
\* layer stays sent; the attempts of the step end with what the rollback
\* leaves in storage
RequestCreate ==
  /\ requests < MaxRequests
  /\ db = NoRow
  /\ \E status \in {NOT_CALCULATED, IN_PROGRESS} :
       \E e \in EnvsFor(status) :
         LET H == save_with_hooks(HookState(status), e) IN
           /\ Len(H.tasks) <= MaxTasks
           /\ Commit([transaction_atomic(HookState(status), H) EXCEPT
                        !.attempts =
                           IF H.raised
                           THEN {[a EXCEPT !.final = NoRow, !.derived = "none"] :
                                   a \in H.attempts}
                           ELSE @])
  /\ requests' = requests + 1
  /\ UNCHANGED <<klass, outsideHook>>

\* the task's copy after one of its two model.save() calls
AfterTaskSave(H, t, okPc) ==
  [H EXCEPT !.tasks[t].status = H.status,
            !.tasks[t].pc = IF H.raised THEN "failed" ELSE okPc]

\* calc_and_save line 638: model.save(), hooks not skipped
TaskSave1(t) ==
  /\ tasks[t].pc = "queued"
  /\ \E e \in EnvsFor(tasks[t].status) :
       LET H == AfterTaskSave(save_with_hooks(HookState(tasks[t].status), e),
                              t, "saved")
       IN Len(H.tasks) <= MaxTasks /\ Commit(H)
  /\ UNCHANGED <<klass, requests, outsideHook>>

\* calc_and_save line 639: model.calculate(); a CalculationModel has the
\* method only if its subclass defines one
TaskCalculate(t) ==
  /\ tasks[t].pc = "saved"
  /\ \E raises \in BOOLEAN :
       tasks' = [tasks EXCEPT
                   ![t].computeRaised = klass.calculate /\ raises,
                   ![t].pc = IF klass.calculate /\ ~ raises THEN "calculated"
                             ELSE "failed"]
  /\ attempts' = {}
  /\ scheduled' = 0
  /\ persistLog' = <<>>
  /\ notifyLog' = <<>>
  /\ UNCHANGED <<klass, db, requests, outsideHook>>

\* calc_and_save line 643: model.save() again, hooks not skipped
TaskSave2(t) ==
  /\ tasks[t].pc = "calculated"
  /\ \E e \in EnvsFor(tasks[t].status) :
       LET H == AfterTaskSave(save_with_hooks(HookState(tasks[t].status), e),
                              t, "succeeded")
       IN Len(H.tasks) <= MaxTasks /\ Commit(H)
  /\ UNCHANGED <<klass, requests, outsideHook>>

\* CallbackTask._update_model_status (182-221): inside transaction.atomic()
\* set the status, save(skip_hooks=True), notify; an exception rolls the
\* write back and is swallowed
_update_model_status(H, delivered) ==
  LET sent == update_calculation_status(save_skip_hooks(H), delivered) IN
    IF sent.raised THEN H ELSE sent

\* CallbackTask.on_success / on_failure (87-157) for a finished task
TaskCallback(t) ==
  /\ tasks[t].pc \in {"succeeded", "failed"}
  /\ \E delivered \in BOOLEAN :
       LET status == IF tasks[t].pc = "succeeded" THEN SUCCESS ELSE ERROR
           H == _update_model_status(HookState(status), delivered)
       IN Commit([H EXCEPT !.tasks[t].pc = "closed",
                           !.tasks[t].status = status,
                           !.tasks[t].notifyRaised = ~ delivered,
                           !.tasks[t].final = H.db])
  /\ UNCHANGED <<klass, requests, outsideHook>>

IdleHook ==
  /\ klass = [calculate |-> FALSE, task_id |-> FALSE, is_atomic |-> TRUE]
  /\ db = NOT_CALCULATED
  /\ tasks = <<>>
  /\ attempts = {}
  /\ scheduled = 0
  /\ persistLog = <<>>
  /\ notifyLog = <<>>
  /\ requests = 0

(***************************************************************************)
(* create() as a process: expansion, reconciliation, partitioning, routing *)
(***************************************************************************)
\* lines 85-103
CreateExpand ==
  /\ pc = "expand"
  /\ models' = Expansion(kwargs, selected_key_list)
  /\ candidates' = models'
  /\ pc' = "reconcile"
  /\ UNCHANGED <<defining_fields, args, kwargs, selected_key_list,
                 parallelizable_fields, CELERY_ACTIVE,
                 faulty, cluster_dict, groups>>
  /\ UNCHANGED storeVars
  /\ UNCHANGED outsideCreate

\* lines 115-119
CreateReconcile ==
  /\ pc = "reconcile"
  /\ LET r == ReconcileAll(models, storage) IN
       /\ models' = r.ms
       /\ storage' = r.st
       /\ pc' = IF r.raised THEN "raised" ELSE "cluster"
  /\ UNCHANGED <<defining_fields, args, kwargs, selected_key_list,
                 parallelizable_fields, CELERY_ACTIVE,
                 faulty, candidates, cluster_dict, groups>>
  /\ UNCHANGED <<nextPk, nCalc, calcLog>>
  /\ UNCHANGED outsideCreate

\* lines 122-135; an AttributeError inside the loop leaves create()
CreateCluster ==
  /\ pc = "cluster"
  /\ LET c == Clustering(models, parallelizable_fields) IN
       /\ cluster_dict' = c.top
       /\ pc' = IF c.crash THEN "raised" ELSE "route"
  /\ UNCHANGED <<defining_fields, args, kwargs, selected_key_list,
                 parallelizable_fields, CELERY_ACTIVE,
                 faulty, candidates, models, groups>>
  /\ UNCHANGED storeVars
  /\ UNCHANGED outsideCreate

\* lines 145-146: groups = add_to_group(cluster_dict, [])
CreateGroups ==
  /\ pc = "route"
  /\ CELERY_ACTIVE
  /\ groups' = add_to_group(cluster_dict)
  /\ pc' = "dispatch"
  /\ UNCHANGED <<defining_fields, args, kwargs, selected_key_list,
                 parallelizable_fields, CELERY_ACTIVE,
                 faulty, candidates, models, cluster_dict>>
  /\ UNCHANGED storeVars
  /\ UNCHANGED outsideCreate

\* lines 221-223: calc_and_save_sync(models, *args)
CreateLocal ==
  /\ pc = "route"
  /\ ~ CELERY_ACTIVE
  /\ LET S == calc_and_save_sync(SyncState, AllModels, faulty) IN
       /\ models' = S.ms
       /\ storage' = S.st
       /\ nextPk' = S.npk
       /\ nCalc' = S.nc
       /\ calcLog' = S.log
       /\ pc' = IF S.raised THEN "raised" ELSE "returned"
  /\ UNCHANGED <<defining_fields, args, kwargs, selected_key_list,
                 parallelizable_fields, CELERY_ACTIVE,
                 faulty, candidates, cluster_dict, groups>>
  /\ UNCHANGED outsideCreate

(***************************************************************************)
(* create() in distributed mode (calculated_model.py 147-220) and the      *)
(* calc_and_save task a worker runs on a group (celery_tasks.py 621-683)   *)
(***************************************************************************)
IdleRoute == gi = 1 /\ task_results = <<>> /\ fallback = "none"

\* the state a worker's calc_and_save works on
WorkerState == [st |-> storage, npk |-> nextPk, nc |-> nCalc, log |-> calcLog,
                raised |-> FALSE]

\* calc_and_save lines 645-665: on IntegrityError take the pk of the stored
\* row or reset the pk, save once more, with no calculate() in between
RemoteConflict(S, m) ==
  LET old == delete_models_with_same_defining_fields(m, S.st) IN
    IF old.raised THEN [S EXCEPT !.raised = TRUE]
    ELSE LET isSelf == filtered_objects(m, S.st) = {}
             pk == IF ~ ModelEq(old.model, m, isSelf) /\ old.model.pk # NoPk
                   THEN old.model.pk ELSE NoPk
             r == Save([m EXCEPT !.pk = pk], S.st, S.npk)
         IN IF r.ok THEN [S EXCEPT !.st = r.storage, !.npk = r.nextPk]
            ELSE [S EXCEPT !.raised = TRUE]

\* calc_and_save lines 636-644 for the pickled copy m of models[i]; the task
\* was called with (models, *args, **kwargs), line 639 is model.calculate()
RemoteOne(S, i, m, flt) ==
  LET r1 == Save(m, S.st, S.npk) IN
    IF ~ r1.ok THEN RemoteConflict(S, m)
    ELSE
      LET S1 == [S EXCEPT !.st = r1.storage, !.npk = r1.nextPk, !.nc = @ + 1,
                          !.log = Append(@, [i |-> i, by |-> "worker", args |-> <<>>])]
      IN
      IF KeyOf(m) \in flt THEN [S1 EXCEPT !.raised = TRUE]
      ELSE LET r2 == Save(calculate(r1.model, S1.nc), S1.st, S1.npk) IN
             IF r2.ok THEN [S1 EXCEPT !.st = r2.storage, !.npk = r2.nextPk]
             ELSE RemoteConflict(S1, calculate(r1.model, S1.nc))

\* for model in models: ...   over the group's indexes and pickled copies
RECURSIVE calc_and_save(_, _, _, _)
calc_and_save(S, group, copies, flt) ==
  IF group = <<>> \/ S.raised THEN S
  ELSE calc_and_save(RemoteOne(S, Head(group), Head(copies), flt),
                     Tail(group), Tail(copies), flt)

\* a later calc_and_save_sync of the same call starts without an exception
Resume(S) == [S EXCEPT !.raised = FALSE]

\* the except blocks at 209-213 and 217-220: calc_and_save_sync(models, *args),
\* and once more when the first of them raises
\* under the entities for which calculate() raises by then
AllLocallyUnder_none(S, reruns, flt) == Resume(S)

AllLocallyUnder(S, reruns, flt) ==
  LET first == calc_and_save_sync(Resume(S), AllModels, flt) IN
    IF first.raised /\ reruns > 1
    THEN calc_and_save_sync(Resume(first), AllModels, flt)
    ELSE first

AllLocally(S, reruns) == AllLocallyUnder(S, reruns, faulty)

\* the caller's variables take what the local runs left
CommitSync(S) ==
  /\ models' = S.ms
  /\ storage' = S.st
  /\ nextPk' = S.npk
  /\ nCalc' = S.nc
  /\ calcLog' = S.log

\* lines 164-174: one turn of the dispatch loop,
\* calc_and_save.delay(group, *args, calculation_id=...); delay() reaches the transport
\* or raises, and then the group runs here; an exception of that run is
\* handled at 217-220.  The only condition before delay() is CELERY_ACTIVE
\* (line 145): no probe of the transport has been made (probed)
RouteDispatch ==
  /\ pc = "dispatch"
  /\ gi <= Len(groups)
  /\ \E sent \in BOOLEAN :
       IF sent
       THEN /\ task_results' =
                 Append(task_results,
                        [group |-> groups[gi],
                         copies |-> [k \in 1..Len(groups[gi]) |-> models[groups[gi][k]]],
                         args |-> args,
                         state |-> "sent", probed |-> FALSE])
            /\ gi' = gi + 1
            /\ pc' = pc
            /\ UNCHANGED <<models, storeVars>>
       ELSE LET S == calc_and_save_sync(SyncState, groups[gi], faulty)
                T == IF S.raised THEN AllLocally(S, 1) ELSE S
            IN /\ CommitSync(T)
               /\ pc' = IF ~ S.raised THEN pc
                        ELSE IF T.raised THEN "raised" ELSE "returned"
               /\ gi' = gi + 1
               /\ UNCHANGED task_results
  /\ UNCHANGED fallback
  /\ UNCHANGED <<defining_fields, args, kwargs, selected_key_list,
                 parallelizable_fields, CELERY_ACTIVE,
                 faulty, candidates, cluster_dict, groups>>
  /\ UNCHANGED outsideRoute

\* lines 176 and 214-215: the loop is over
RouteDispatched ==
  /\ pc = "dispatch"
  /\ gi > Len(groups)
  /\ pc' = IF task_results = <<>> THEN "returned" ELSE "join"
  /\ UNCHANGED <<defining_fields, args, kwargs, selected_key_list,
                 parallelizable_fields, CELERY_ACTIVE,
                 faulty, candidates, models, cluster_dict, groups>>
  /\ UNCHANGED <<storeVars, routeVars, outsideRoute>>

\* a worker runs one task; it may be lost before the task starts or after any
\* number n of the group's entities, and the handle then reports failure
WorkerRun(t) ==
  /\ task_results[t].state = "sent"
  /\ \E n \in 0..Len(task_results[t].group) :
       LET S == calc_and_save(WorkerState, SubSeq(task_results[t].group, 1, n),
                              SubSeq(task_results[t].copies, 1, n), faulty)
       IN /\ task_results' =
               [task_results EXCEPT
                  ![t].state = IF S.raised \/ n < Len(task_results[t].group)
                               THEN "failed" ELSE "succeeded"]
          /\ storage' = S.st
          /\ nextPk' = S.npk
          /\ nCalc' = S.nc
          /\ calcLog' = S.log
  /\ UNCHANGED <<createVars, gi, fallback, outsideRoute>>

\* every handle counted as failed
failed_groups_all == [k \in 1..Len(task_results) |-> task_results[k].group]

\* the groups of the tasks that report failure, in task order
failed_groups ==
  LET failed == SelectSeq(task_results, LAMBDA r : r.state = "failed") IN
    [k \in 1..Len(failed) |-> failed[k].group]

\* _handle_celery_task_failure (64-80): the failed groups one after the other,
\* re-raising the first exception
RECURSIVE _handle_celery_task_failure(_, _)
_handle_celery_task_failure(S, fgs) ==
  IF fgs = <<>> \/ S.raised THEN S
  ELSE _handle_celery_task_failure(
         calc_and_save_sync(S, Head(fgs), faulty), Tail(fgs))

\* lines 178-213: join, look at every handle, re-run the failed groups; an
\* exception of join or of a re-run is handled at 209-213, one of that handler
\* at 217-220.  What made calculate() raise in the re-run (steady) lasts into
\* the handlers, or has passed by then
RouteJoin ==
  /\ pc = "join"
  /\ \A t \in DOMAIN task_results : task_results[t].state # "sent"
  /\ \E joined, steady \in BOOLEAN :
       LET S == IF joined THEN _handle_celery_task_failure(SyncState, failed_groups)
                ELSE [SyncState EXCEPT !.raised = TRUE]
           T == IF S.raised
                THEN AllLocallyUnder(S, 2, IF steady THEN faulty ELSE {})
                ELSE S
       IN /\ CommitSync(T)
          /\ pc' = IF T.raised THEN "raised" ELSE "returned"
          /\ fallback' = IF ~ joined THEN "all"
                         ELSE IF failed_groups = <<>> THEN "none"
                         ELSE IF S.raised THEN "raised" ELSE "done"
  /\ UNCHANGED <<defining_fields, args, kwargs, selected_key_list,
                 parallelizable_fields, CELERY_ACTIVE,
                 faulty, candidates, cluster_dict, groups>>
  /\ UNCHANGED <<gi, task_results, outsideRoute>>

(***************************************************************************)
(* The correlation context: the operation context of rest_api/context.py,  *)
(* the stack of entities being computed, and what of them reaches a worker *)
(* (celery_tasks.py 43-73, 441-462)                                        *)
(***************************************************************************)
Threads == {"caller", "worker"}

\* operation ids (uuid4) handed out in one behaviour
MaxOperations == 3
Entities == {"E1", "E2"}
CausalIds == {"c1", "c2"}

\* the calculation_id argument of OperationContext: an id, or None when the
\* caller supplies none (context.py 14)
Supplied == CausalIds \cup {None}

\* the default of the ContextVar operation_context (context.py 6-9)
EmptyContext == [operation_id |-> "", calculation_id |-> ""]

IdleCtx ==
  /\ operation_context = [t \in Threads |-> EmptyContext]
  /\ model_stack = [t \in Threads |-> <<>>]
  /\ model_context = None
  /\ nextOperation = 1
  /\ cpc = "start"
  /\ inflight = <<>>
  /\ wpc = "idle"
  /\ current = <<>>

\* OperationContext.__enter__ (context.py 18-24): a new context only when no
\* operation id is set
OperationContext_enter_overwriting(ctx, c, n) ==
  [operation_id |-> ToString(n), calculation_id |-> c]

OperationContext_enter(ctx, c, n) ==
  IF ctx.operation_id = ""
  THEN [operation_id |-> ToString(n), calculation_id |-> c]
  ELSE ctx

\* OperationContext.__exit__ (context.py 32-36)
OperationContext_exit(ctx) == EmptyContext

\* the outer operation begins: with OperationContext(request, calculationId)
OuterBegin ==
  /\ cpc = "start"
  /\ \E c \in Supplied :
       operation_context' =
         [operation_context EXCEPT
            !["caller"] = OperationContext_enter(@, c, nextOperation)]
  /\ nextOperation' = nextOperation + 1
  /\ cpc' = "outer"
  /\ UNCHANGED <<model_stack, model_context, inflight, wpc, current, outsideCtx>>

\* a child operation begins inside the outer one
ChildBegin ==
  /\ cpc = "outer"
  /\ \E c \in Supplied :
       operation_context' =
         [operation_context EXCEPT
            !["caller"] = OperationContext_enter(@, c, nextOperation)]
  /\ nextOperation' =
       IF operation_context["caller"].operation_id = "" THEN nextOperation + 1
       ELSE nextOperation
  /\ cpc' = "child"
  /\ UNCHANGED <<model_stack, model_context, inflight, wpc, current, outsideCtx>>

\* the child operation ends; the outer one goes on
ChildEnd ==
  /\ cpc = "child"
  /\ operation_context' =
       [operation_context EXCEPT !["caller"] = OperationContext_exit(@)]
  /\ cpc' = "resumed"
  /\ UNCHANGED <<model_stack, model_context, nextOperation, inflight, wpc,
                 current, outsideCtx>>

\* the outer operation ends
OuterEnd ==
  /\ cpc \in {"outer", "resumed"}
  /\ operation_context' =
       [operation_context EXCEPT !["caller"] = OperationContext_exit(@)]
  /\ cpc' = "ended"
  /\ UNCHANGED <<model_stack, model_context, nextOperation, inflight, wpc,
                 current, outsideCtx>>

\* an entity starts being computed in the calling operation
PushEntity ==
  /\ cpc \in {"outer", "child", "resumed"}
  /\ \E e \in Entities \ Range(model_stack["caller"]) :
       model_stack' = [model_stack EXCEPT !["caller"] = Append(@, e)]
  /\ UNCHANGED <<operation_context, model_context, nextOperation, cpc, inflight,
                 wpc, current, outsideCtx>>

\* the innermost entity is done
PopEntity ==
  /\ cpc \in {"outer", "child", "resumed"}
  /\ model_stack["caller"] # <<>>
  /\ model_stack' =
       [model_stack EXCEPT !["caller"] = SubSeq(@, 1, Len(@) - 1)]
  /\ UNCHANGED <<operation_context, model_context, nextOperation, cpc, inflight,
                 wpc, current, outsideCtx>>

\* a task message: the keyword arguments of delay() (context and
\* model_context are <<>> when not passed, else a one-element sequence), and
\* what the sender's context was
Message(by, calculation_id) ==
  [by |-> by,
   kwargs |-> [calculation_id |-> calculation_id, context |-> <<>>,
               model_context |-> <<>>],
   sender |-> [calculation_id |-> operation_context["caller"].calculation_id,
               stack |-> model_stack["caller"]]]

\* dispatch_calculation_task (CalculationModel.py 92-101): context_id is not
\* a name of that module, the lookup raises, calculation_id stays None
DispatchFromHook ==
  /\ cpc \in {"outer", "child", "resumed"}
  /\ \A i \in DOMAIN inflight : inflight[i].by # "hook"
  /\ \A i \in DOMAIN current : current[i].by # "hook"
  /\ inflight' = Append(inflight, Message("hook", None))
  /\ UNCHANGED <<operation_context, model_stack, model_context, nextOperation,
                 cpc, wpc, current, outsideCtx>>

\* create() (calculated_model.py 152-167): calculation_id is read from
\* context_id, a name rest_api/context.py does not define: it is the
\* calculation id of the operation context, or None when the lookup raises
DispatchFromCreate ==
  /\ cpc \in {"outer", "child", "resumed"}
  /\ \A i \in DOMAIN inflight : inflight[i].by # "create"
  /\ \A i \in DOMAIN current : current[i].by # "create"
  /\ \E found \in BOOLEAN :
       inflight' =
         Append(inflight,
                Message("create",
                        IF found /\ operation_context["caller"].calculation_id # ""
                        THEN operation_context["caller"].calculation_id
                        ELSE None))
  /\ UNCHANGED <<operation_context, model_stack, model_context, nextOperation,
                 cpc, wpc, current, outsideCtx>>

\* a task of the application, decorated with lex_shared_task, is sent with the
\* keyword arguments the wrapper looks for (celery_tasks.py 445-446): context
\* is the caller's operation context (a dict with keys, truthy), model_context
\* the caller's entities in computation when there are any
DispatchWithContext ==
  /\ cpc \in {"outer", "child", "resumed"}
  /\ nextOperation < MaxOperations
  /\ \A i \in DOMAIN inflight : inflight[i].by # "task"
  /\ \A i \in DOMAIN current : current[i].by # "task"
  /\ inflight' =
       Append(inflight,
              [Message("task", None) EXCEPT
                 !.kwargs.context = <<operation_context["caller"]>>,
                 !.kwargs.model_context =
                    IF model_stack["caller"] = <<>> THEN <<>>
                    ELSE <<model_stack["caller"]>>])
  /\ UNCHANGED <<operation_context, model_stack, model_context, nextOperation,
                 cpc, wpc, current, outsideCtx>>

\* CeleryCalculationContext.__enter__ (celery_tasks.py 55-70) on the worker
CeleryCalculationContext_enter(ctx, context, n) ==
  IF context # <<>>
  THEN [operation_id |-> ToString(n), calculation_id |-> context[1].calculation_id]
  ELSE ctx

\* lex_shared_task.wrapper (444-453): context and model_context are taken
\* from the keyword arguments, then CeleryCalculationContext is entered
WorkerEnter ==
  /\ wpc = "idle"
  /\ inflight # <<>>
  /\ LET kw == Head(inflight).kwargs IN
       /\ operation_context' =
            [operation_context EXCEPT
               !["worker"] = CeleryCalculationContext_enter(@, kw.context,
                                                            nextOperation)]
       /\ nextOperation' =
            IF kw.context # <<>> THEN nextOperation + 1 ELSE nextOperation
       /\ model_context' =
            IF kw.model_context # <<>> THEN kw.model_context[1] ELSE model_context
  /\ current' = <<Head(inflight)>>
  /\ inflight' = Tail(inflight)
  /\ wpc' = "entered"
  /\ UNCHANGED <<model_stack, cpc, outsideCtx>>

\* wrapper line 454: result = func(*args, **kwargs), which returns or raises
WorkerCompute ==
  /\ wpc = "entered"
  /\ wpc' \in {"computed", "raised"}
  /\ UNCHANGED <<operation_context, model_stack, model_context, nextOperation,
                 cpc, inflight, current, outsideCtx>>

\* CeleryCalculationContext.__exit__ (72-73): pass, on return and on exception
WorkerExit ==
  /\ wpc \in {"computed", "raised"}
  /\ wpc' = "idle"
  /\ current' = <<>>
  /\ UNCHANGED <<operation_context, model_stack, model_context, nextOperation,
                 cpc, inflight, outsideCtx>>

(***************************************************************************)
(* RunInCelery blocks and direct calls of lex_shared_task methods          *)
(* (celery_tasks.py 224-300, 331-367), by the threads of one process       *)
(***************************************************************************)
BlockThreads == {"t1", "t2"}
MaxBlocks == 2      \* deepest nesting of RunInCelery blocks in one thread
MaxResults == 2     \* most tasks dispatched through one RunInCelery object

\* the k-th block a thread is inside; a RunInCelery object is made for it
\* when the thread enters
Blocks == BlockThreads \X (1..MaxBlocks)

\* RunInCelery.__init__ (233-246): whether should_dispatch lets the task
\* through (include_tasks, exclude_tasks), and dispatched_results
NewRunInCelery(d) == [dispatch |-> d, dispatched_results |-> 0]

IdleBlocks ==
  /\ task_context_stack = <<>>
  /\ entered = [t \in BlockThreads |-> <<>>]
  /\ run_in_celery = [b \in Blocks |-> NewRunInCelery(FALSE)]
  /\ lastCall = <<>>

\* tasks_context.get().get('task_context_stack') as thread t sees it: no
\* thread ever calls tasks_context.set, so get() returns the default dict,
\* one object for all threads, and its list
task_context_stack_of(t) == task_context_stack

\* RunInCelery.get_current_context (292-300): the last entry, <<>> for None
get_current_context(t) ==
  IF task_context_stack_of(t) # <<>>
  THEN <<task_context_stack_of(t)[Len(task_context_stack_of(t))]>>
  ELSE <<>>

\* with RunInCelery(...): __init__ and __enter__ (247-253)
BlockEnter(t) ==
  /\ Len(entered[t]) < MaxBlocks
  /\ LET b == <<t, Len(entered[t]) + 1>> IN
       /\ \E d \in BOOLEAN :
            run_in_celery' = [run_in_celery EXCEPT ![b] = NewRunInCelery(d)]
       /\ task_context_stack' = Append(task_context_stack, b)
       /\ entered' = [entered EXCEPT ![t] = Append(@, b)]
  /\ UNCHANGED <<lastCall, outsideBlocks>>

\* __exit__ (255-262): pop the list when it is not empty, then
\* wait_for_completion on the object's own dispatched_results
BlockExit(t) ==
  /\ entered[t] # <<>>
  /\ task_context_stack' =
       IF task_context_stack # <<>>
       THEN SubSeq(task_context_stack, 1, Len(task_context_stack) - 1)
       ELSE task_context_stack
  /\ entered' = [entered EXCEPT ![t] = SubSeq(@, 1, Len(@) - 1)]
  /\ UNCHANGED <<run_in_celery, lastCall, outsideBlocks>>

\* EnhancedBoundTaskMethod.__call__ (347-367): run the task in place when
\* there is no current context or it does not let the task through, else
\* delay() and add the result to the current context
TaskCall(t) ==
  /\ LET context == get_current_context(t) IN
       IF context = <<>>
       THEN /\ lastCall' = <<[by |-> t, mode |-> "sync", context |-> <<>>,
                               inside |-> entered[t]]>>
            /\ UNCHANGED run_in_celery
       ELSE IF run_in_celery[context[1]].dispatch
       THEN /\ run_in_celery[context[1]].dispatched_results < MaxResults
            /\ run_in_celery' =
                 [run_in_celery EXCEPT ![context[1]].dispatched_results = @ + 1]
            /\ lastCall' = <<[by |-> t, mode |-> "delay", context |-> context,
                               inside |-> entered[t]]>>
       ELSE /\ lastCall' = <<[by |-> t, mode |-> "sync", context |-> context,
                               inside |-> entered[t]]>>
            /\ UNCHANGED run_in_celery
  /\ UNCHANGED <<task_context_stack, entered, outsideBlocks>>

(***************************************************************************)
(* SpecCreate: one create() call on any partial specification              *)
(***************************************************************************)
KeyLists == SeqsUpTo(Values, MaxKeys)

\* the parallelizable_fields declarations explored
ParallelChoices ==
  {<<>>, <<"f1">>, <<"f1", "f2">>, <<"f2", "f3">>, <<"f1", "f2", "f3">>}

\* the declarations of defining_fields explored: all three fields, or the
\* first two, the third then being an attribute outside the identity
CreateDefiningChoices == {DeclaredFields, <<"f1", "f2">>}

\* rows left by an earlier dispatch cycle
EarlierRows ==
  {[f1 |-> "a", f2 |-> "a", f3 |-> "a", pk |-> 1, val |-> 1],
   [f1 |-> "a", f2 |-> "b", f3 |-> "b", pk |-> 2, val |-> 2]}

InitCreateInputs ==
  /\ defining_fields \in CreateDefiningChoices
  /\ args = <<>>
  /\ \E S \in SUBSET Range(defining_fields) :
       /\ kwargs \in [S -> KeyLists]
       /\ selected_key_list \in [FieldNames \ S -> KeyLists]
  /\ \A f \in FieldNames \ Range(defining_fields) : selected_key_list[f] = <<>>
  /\ Product([i \in 1..Len(defining_fields) |->
                Len(selected_keys(kwargs, selected_key_list, defining_fields[i]))])
       <= MaxCandidates
  /\ parallelizable_fields \in ParallelChoices
  /\ pc = "expand"
  /\ candidates = <<>>
  /\ models = <<>>
  /\ cluster_dict = <<>>
  /\ groups = <<>>
  /\ calcLog = <<>>

InitStore ==
  /\ storage = EarlierRows
  /\ nextPk = Cardinality(EarlierRows) + 1
  /\ nCalc = Cardinality(EarlierRows)

InitCreate ==
  /\ InitCreateInputs
  /\ InitStore
  /\ CELERY_ACTIVE \in BOOLEAN
  /\ faulty = {}
  /\ IdleSave
  /\ IdleHook
  /\ IdleRoute
  /\ IdleCtx
  /\ IdleBlocks

NextCreate ==
  \/ CreateExpand
  \/ CreateReconcile
  \/ CreateCluster
  \/ CreateGroups
  \/ CreateLocal

SpecCreate == InitCreate /\ [][NextCreate]_vars


(***************************************************************************)
(* Properties of expansion and partitioning                                *)
(***************************************************************************)
\* the model indexes held by the groups, group after group
GroupMembers == _flatten(groups)

\* two models agree on every parallelization field
SameParallelValues(m, n) ==
  \A j \in 1..Len(parallelizable_fields) :
    GetAttr(m, parallelizable_fields[j]) = GetAttr(n, parallelizable_fields[j])

\* C1: once the groups are built, every reconciled candidate is in a group
\* and no candidate is in two groups (or twice in one).
C1_ExhaustiveDisjoint ==
  pc = "dispatch" =>
    /\ Range(GroupMembers) = 1..Len(models)
    /\ Cardinality(Range(GroupMembers)) = Len(GroupMembers)

\* C2: candidates with identical values for all parallelization fields are
\* never spread over two groups.
C2_SameKeySameGroup ==
  pc = "dispatch" =>
    \A g, h \in 1..Len(groups) :
      \A i \in Range(groups[g]), j \in Range(groups[h]) :
        SameParallelValues(models[i], models[j]) => g = h

\* C3: all entities of one group have identical values for every
\* parallelization field.
C3_GroupsHomogeneous ==
  pc = "dispatch" =>
    \A g \in 1..Len(groups) :
      \A i, j \in Range(groups[g]) : SameParallelValues(models[i], models[j])

\* number of positions of list l that hold v
Count(l, v) == Cardinality({i \in 1..Len(l) : l[i] = v})

\* the number of candidates the claim as written expects: the lengths of the
\* candidate lists of the fields the caller did not give, the others counting one
PinnedCountOne ==
  Product([i \in 1..Len(defining_fields) |->
             IF defining_fields[i] \in DOMAIN kwargs THEN 1
             ELSE Len(selected_key_list[defining_fields[i]])])

\* C4 as written: expansion yields the product of the candidate counts of the
\* unpinned fields, a pinned field counting as one.
C4_PinnedFactorOne ==
  pc # "expand" => Len(candidates) = PinnedCountOne

\* the list of values expansion uses for the i-th defining field
KeysUsed(i) == selected_keys(kwargs, selected_key_list, defining_fields[i])

\* C4 (amended): expansion yields the product, over all defining fields, of
\* the length of the list used for the field (the caller's list for a given
\* field, the candidate list otherwise), one entity per combination.
C4_ProductOfListLengths ==
  pc # "expand" =>
    /\ Len(candidates) = Product([i \in 1..Len(defining_fields) |-> Len(KeysUsed(i))])
    /\ \A k \in [1..Len(defining_fields) -> Values] :
         Cardinality({c \in 1..Len(candidates) : KeyOf(candidates[c]) = k})
           = Product([i \in 1..Len(defining_fields) |-> Count(KeysUsed(i), k[i])])

\* a caller's list of two values, a candidate list of two values, expanded
C4_Witness ==
  /\ pc # "expand"
  /\ \E f \in DOMAIN kwargs : Len(kwargs[f]) = 2
  /\ \E f \in DOMAIN selected_key_list : Len(selected_key_list[f]) = 2
  /\ Len(candidates) >= 4


(***************************************************************************)
(* SpecSave: dispatch cycles of two runners interleaving on shared storage *)
(***************************************************************************)
IdleCreate ==
  /\ args = <<>>
  /\ kwargs = <<>>
  /\ selected_key_list = <<>>
  /\ parallelizable_fields = <<>>
  /\ faulty = {}
  /\ pc = "idle"
  /\ candidates = <<>>
  /\ models = <<>>
  /\ cluster_dict = <<>>
  /\ groups = <<>>

InitSave ==
  /\ defining_fields \in DefiningChoices
  /\ CELERY_ACTIVE = FALSE
  /\ IdleCreate
  /\ IdleSave
  /\ IdleHook
  /\ IdleRoute
  /\ IdleCtx
  /\ IdleBlocks
  /\ storage = {}
  /\ nextPk = 1
  /\ nCalc = 0
  /\ calcLog = <<>>

NextSave ==
  \E p \in Procs :
    \/ Begin(p)
    \/ CountMatches(p)
    \/ Reconcile(p)
    \/ SyncCalc(p)
    \/ SyncSave(p)
    \/ SyncAdopt(p)
    \/ SyncResave(p)
    \/ RemoteSave1(p)
    \/ RemoteCalc(p)
    \/ RemoteSave2(p)
    \/ RemoteResolve(p)
    \/ RemoteResave(p)

SpecSave == InitSave /\ [][NextSave]_vars


\* the persisted rows with identity key k
RowsFor(k, st) == {r \in st : KeyOf(r) = k}

\* C5 as written: whatever reconcile, compute and save steps have run, in
\* whatever interleaving, no two persisted rows share an identity key.
C5_AtMostOneRowPerKey ==
  \A r, q \in storage : KeyOf(r) = KeyOf(q) => r = q

\* C5 (amended): for an entity class that declares at least one identity
\* field, whatever reconcile, compute and save steps have run, in whatever
\* interleaving, no two persisted rows share an identity key.
C5_AtMostOneRowPerDeclaredKey ==
  Len(defining_fields) # 0 => \A r, q \in storage : KeyOf(r) = KeyOf(q) => r = q

\* two overlapping cycles for one declared key have both saved, one of them
\* after its save hit the constraint, and one row is stored for the key
C5_Witness ==
  /\ Len(defining_fields) # 0
  /\ \E p, q \in Procs :
       /\ p # q
       /\ procs[p].pc = "done" /\ procs[q].pc = "done"
       /\ procs[p].overlap /\ procs[q].overlap
       /\ procs[q].conflict /\ ~ procs[p].conflict
       /\ KeyOf(procs[p].model) = KeyOf(procs[q].model)
       /\ Cardinality(RowsFor(KeyOf(procs[p].model), storage)) = 1

\* this step is a successful save that ends p's cycle, of an entity p computed
SavesComputed(p) ==
  /\ InCycle(p)
  /\ procs'[p].pc = "done"
  /\ procs[p].calcNo # 0

\* pk of the row the key of p's entity already has: the one found when the
\* cycle began, else the one stored right now
EarlierPk(p) ==
  IF procs[p].prior # NoPk THEN procs[p].prior
  ELSE StoredPk(KeyOf(procs[p].model), storage)

\* after the step one row is stored for the key of p's entity, under the
\* earlier row's pk, with the attributes p computed
AdoptedAndOverwritten(p) ==
  LET rows == RowsFor(KeyOf(procs[p].model), storage') IN
    /\ Cardinality(rows) = 1
    /\ \A r \in rows : r.pk = EarlierPk(p) /\ r.val = procs[p].calcNo

\* C6 as written: whenever a computed entity is saved for an identity key
\* that already has a persisted row, afterwards exactly one row is stored for
\* the key, it has the earlier row's primary key and it carries the attributes
\* of this computation.
C6_AdoptsAndOverwrites ==
  [][\A p \in Procs :
       SavesComputed(p) /\ EarlierPk(p) # NoPk => AdoptedAndOverwritten(p)]_vars

\* C6 (amended): whenever a computed entity is saved for an identity key that
\* already has a persisted row, and the entity class declares at least one
\* identity field or no other dispatch cycle overlapped this one, afterwards
\* exactly one row is stored for the key, it has the earlier row's primary key
\* and it carries the attributes of this computation.
C6_AdoptsAndOverwritesGuarded ==
  [][\A p \in Procs :
       /\ SavesComputed(p)
       /\ EarlierPk(p) # NoPk
       /\ (Len(defining_fields) # 0 \/ ~ procs[p].overlap)
       => AdoptedAndOverwritten(p)]_vars

\* one cycle found the row of an earlier cycle when it began, another met it
\* only at its save; both computed, took over the row's pk and overwrote it
C6_Witness ==
  \E p, q \in Procs :
    /\ p # q
    /\ procs[p].pc = "done" /\ procs[p].calcNo # 0
    /\ procs[p].prior # NoPk /\ procs[p].model.pk = procs[p].prior
    /\ procs[q].calcNo # 0 /\ procs[q].conflict /\ procs[q].prior = NoPk
    /\ procs[q].model.pk # NoPk
    /\ \E r \in storage : r.pk = procs[p].prior /\ r.val = procs[p].calcNo


(***************************************************************************)
(* SpecHook: one CalculationModel row, its clients and its workers         *)
(***************************************************************************)
InitHook ==
  /\ defining_fields = <<>>
  /\ CELERY_ACTIVE \in BOOLEAN
  /\ IdleCreate
  /\ storage = {}
  /\ nextPk = 1
  /\ nCalc = 0
  /\ calcLog = <<>>
  /\ IdleSave
  /\ IdleRoute
  /\ IdleCtx
  /\ IdleBlocks
  /\ klass \in Klasses
  /\ db \in {NOT_CALCULATED, NoRow}
  /\ tasks = <<>>
  /\ attempts = {}
  /\ scheduled = 0
  /\ persistLog = <<>>
  /\ notifyLog = <<>>
  /\ requests = 0

NextHook ==
  \/ RequestCreate
  \/ RequestCalculate
  \/ RequestEdit
  \/ \E t \in DOMAIN tasks : TaskSave1(t)
  \/ \E t \in DOMAIN tasks : TaskCalculate(t)
  \/ \E t \in DOMAIN tasks : TaskSave2(t)
  \/ \E t \in DOMAIN tasks : TaskCallback(t)

SpecHook == InitHook /\ [][NextHook]_vars


\* the attempts that have ended: those that ended inside the latest step,
\* and the dispatched ones whose task has had its callback
EndedAttempts ==
  attempts \cup
    {[mode |-> "remote", computeRaised |-> tasks[t].computeRaised,
      computeReturned |-> tasks[t].status = SUCCESS,
      notifyRaised |-> tasks[t].notifyRaised,
      final |-> tasks[t].final] : t \in {u \in DOMAIN tasks : tasks[u].pc = "closed"}}

\* C7: an attempt ends with persisted status SUCCESS if and only if its
\* compute() raised no exception, and whenever compute() raised it ends with
\* persisted status ERROR.
C7_SuccessIffNoException ==
  \A a \in EndedAttempts :
    /\ a.final = SUCCESS <=> ~ a.computeRaised
    /\ a.computeRaised => a.final = ERROR

\* C8: a step that saves IN_PROGRESS to a row whose persisted status is
\* already IN_PROGRESS starts no run of the computation hook.
C8_EdgeTriggered ==
  [][(/\ db = IN_PROGRESS
      /\ persistLog' # <<>>
      /\ persistLog'[1] = IN_PROGRESS) => scheduled' = 0]_vars


(***************************************************************************)
(* SpecRoute: create() calls on small partial specifications, routed       *)
(* locally or to the transport, with workers and dispatch failures         *)
(***************************************************************************)
\* lists of selected keys explored
RouteKeyLists == {<<"a">>, <<"a", "b">>, <<"b", "a">>}

\* identity keys on which calculate() may be made to raise
FaultyChoices == {{}, {<<"b", "a", "a">>}}

\* extra positional arguments of create(): none, or one
ArgsChoices == {<<>>, <<"x">>}

InitRoute ==
  /\ defining_fields = DeclaredFields
  /\ args \in ArgsChoices
  /\ \E S \in {{}, {"f1"}, {"f2"}} :
       /\ kwargs \in [S -> RouteKeyLists]
       /\ selected_key_list \in [FieldNames \ S -> RouteKeyLists]
  /\ parallelizable_fields \in ParallelChoices
  /\ CELERY_ACTIVE \in BOOLEAN
  /\ faulty \in FaultyChoices
  /\ pc = "expand"
  /\ candidates = <<>>
  /\ models = <<>>
  /\ cluster_dict = <<>>
  /\ groups = <<>>
  /\ calcLog = <<>>
  /\ InitStore
  /\ IdleSave
  /\ IdleHook
  /\ IdleRoute
  /\ IdleCtx
  /\ IdleBlocks

NextRoute ==
  \/ CreateExpand
  \/ CreateReconcile
  \/ CreateCluster
  \/ CreateGroups
  \/ CreateLocal
  \/ RouteDispatch
  \/ RouteDispatched
  \/ \E t \in DOMAIN task_results : WorkerRun(t)
  \/ RouteJoin

SpecRoute == InitRoute /\ [][NextRoute]_vars


\* create() with distributed dispatch disabled, run on the same input and the
\* same initial storage: lines 85-135 and 221-223
LocalRun ==
  LET r == ReconcileAll(Expansion(kwargs, selected_key_list), EarlierRows)
      c == Clustering(r.ms, parallelizable_fields)
      S == [ms |-> r.ms, st |-> r.st, npk |-> Cardinality(EarlierRows) + 1,
            nc |-> Cardinality(EarlierRows), log |-> <<>>, raised |-> FALSE]
  IN IF r.raised \/ c.crash THEN [S EXCEPT !.raised = TRUE]
     ELSE calc_and_save_sync(S, [i \in 1..Len(r.ms) |-> i], faulty)

\* which entities are persisted, and which of them this call computed
Outcome(st) ==
  {[key |-> KeyOf(r), computed |-> r.val > Cardinality(EarlierRows)] : r \in st}

\* create() is over and every submission to the transport had failed
AllSubmissionsFailed ==
  /\ CELERY_ACTIVE
  /\ pc \in {"returned", "raised"}
  /\ gi > 1
  /\ task_results = <<>>

\* C9: when every submission to the transport failed, create() leaves the
\* same entities persisted and computed as a run with distributed dispatch
\* disabled leaves on the same input.
C9_FallbackEqualsLocal ==
  AllSubmissionsFailed => Outcome(storage) = Outcome(LocalRun.st)


(***************************************************************************)
(* SpecCtx: one calling operation with a child operation, its dispatches,  *)
(* and the worker that takes them                                          *)
(***************************************************************************)
InitCtx ==
  /\ defining_fields = <<>>
  /\ CELERY_ACTIVE = TRUE
  /\ IdleCreate
  /\ storage = {}
  /\ nextPk = 1
  /\ nCalc = 0
  /\ calcLog = <<>>
  /\ IdleSave
  /\ IdleHook
  /\ IdleRoute
  /\ IdleCtx
  /\ IdleBlocks

NextCtx ==
  \/ OuterBegin
  \/ ChildBegin
  \/ ChildEnd
  \/ OuterEnd
  \/ PushEntity
  \/ PopEntity
  \/ DispatchFromHook
  \/ DispatchFromCreate
  \/ DispatchWithContext
  \/ WorkerEnter
  \/ WorkerCompute
  \/ WorkerExit

SpecCtx == InitCtx /\ [][NextCtx]_vars

\* C10: when the worker has entered the context of a message and has not yet
\* started to compute, and the sender was inside a correlation context, the
\* worker's context has the sender's causal id and the sender's entity stack
\* in the same order.
C10_ContextReplayed ==
  (wpc = "entered" /\ current[1].sender.calculation_id # "")
    => /\ operation_context["worker"].calculation_id =
            current[1].sender.calculation_id
       /\ model_stack["worker"] = current[1].sender.stack

\* the worker has ended a work item for which a context was installed
EndedWithContext ==
  /\ wpc \in {"computed", "raised"}
  /\ current[1].kwargs.context # <<>>

\* C11: when a work item for which the worker installed a correlation context
\* ends, by return or by exception, the worker's context is empty right after.
C11_ClearedOnExit ==
  [][(EndedWithContext /\ wpc' = "idle")
       => operation_context'["worker"] = EmptyContext]_vars

\* candidate i of the expansion has had calculate() run in this call
Computed(i) == \E k \in DOMAIN calcLog : calcLog[k].i = i

\* a row with candidate i's identity values, written by this call, is stored
SavedByCall(i) ==
  \E r \in storage : /\ KeyOf(r) = KeyOf(candidates[i])
                     /\ r.val > Cardinality(EarlierRows)

\* C12: when create() has returned normally, in either routing mode, every
\* candidate of the expansion has had calculate() run and has been saved.
C12_NoCandidateSkipped ==
  pc = "returned" => \A i \in DOMAIN candidates : Computed(i) /\ SavedByCall(i)

\* C13: when the local re-run of a failed group raised, create() does not
\* return normally.
C13_FallbackErrorPropagates ==
  fallback = "raised" => pc # "returned"

\* C14: an attempt whose compute() returned ends with persisted status
\* SUCCESS also when notifying the observers failed.
C14_ObserverFailureSwallowed ==
  \A a \in EndedAttempts :
    (a.computeReturned /\ a.notifyRaised) => a.final = SUCCESS

\* p is at one of the normal saves of a cycle, at the adoption, at the retry
AtSave(p) == procs[p].pc \in {"s_save", "r_save1", "r_save2"}
AtAdopt(p) == procs[p].pc \in {"s_lookup2", "r_lookup2"}
AtRetry(p) == procs[p].pc \in {"s_resave", "r_resave"}

\* the step is p's, out of position pc
StepOf(p) == procs'[p].pc # procs[p].pc

\* C15: in the local and in the remote path, a save that hits the uniqueness
\* constraint writes nothing and leads to reconcile; the entity then takes
\* the storage identity of the row reconcile returns and the save is retried
\* once; the retry ends the cycle, by success or by a propagating failure.
C15_ConflictRetryOnce ==
  [][\A p \in Procs :
       /\ (AtSave(p) /\ StepOf(p) /\ ~ UniqueOk(procs[p].model, storage))
            => /\ procs'[p].pc \in {"s_lookup", "r_lookup"}
               /\ storage' = storage
       /\ (AtSave(p) /\ StepOf(p) /\ UniqueOk(procs[p].model, storage))
            => procs'[p].pc \notin {"s_lookup", "r_lookup"}
       /\ (AtAdopt(p) /\ StepOf(p) /\ procs'[p].pc # "raised")
            => /\ AtRetry(p)'
               /\ procs'[p].model.pk = StoredPk(KeyOf(procs[p].model), storage)
               /\ procs'[p].model.pk # NoPk
       /\ (AtRetry(p) /\ StepOf(p))
            => /\ procs'[p].pc \in {"done", "raised"}
               /\ procs'[p].pc = "done" <=> procs'[p].model \in storage'
  ]_vars

\* a remote cycle has hit the constraint, adopted and saved again
C15_Witness ==
  \E p \in Procs : /\ procs[p].path = "remote"
                   /\ procs[p].conflict
                   /\ procs[p].pc = "done"

\* p is at the body of the resolver, its first query answered
AtResolve(p) == procs[p].pc \in {"reconcile2", "s_lookup2", "r_lookup2"}

\* C16: when reconcile finds more than one stored row with the entity's
\* identity-field values, it ends by an exception that ends the cycle; no row
\* is picked: the entity keeps its storage identity and storage is unchanged.
C16_MultipleMatchFatal ==
  [][\A p \in Procs :
       (AtResolve(p) /\ StepOf(p) /\ procs[p].c1 > 1)
         => /\ procs'[p].pc = "raised"
            /\ procs'[p].model = procs[p].model
            /\ storage' = storage
  ]_vars

\* a cycle has ended in the resolver's exception for several matching rows
C16_Witness ==
  \E p \in Procs : /\ procs[p].pc = "raised"
                   /\ procs[p].c1 > 1
                   /\ Cardinality(filtered_objects(procs[p].model, storage)) > 1

\* p is at the body of the resolver called by create() (lines 116-119)
AtReconcile(p) == procs[p].pc = "reconcile2"

\* the one stored row with the identity values of p's entity
MatchedRow(p) == CHOOSE r \in storage : KeyOf(r) = KeyOf(procs[p].model)

\* C17 as stated: when reconcile finds exactly one matching row, it returns
\* the same entity with the row's primary key copied onto it, and the row is
\* deleted from storage.
C17_CopiesPkAndDeletes ==
  [][\A p \in Procs :
       (AtReconcile(p) /\ StepOf(p) /\ procs[p].c1 = 1)
         => /\ procs'[p].model = [procs[p].model EXCEPT !.pk = MatchedRow(p).pk]
            /\ MatchedRow(p) \notin storage'
  ]_vars

\* C17 amended: when reconcile finds exactly one matching row, it returns the
\* stored row itself, with the row's primary key and stored attributes, in
\* place of the entity, and storage is unchanged.
C17_ReturnsStoredRow ==
  [][\A p \in Procs :
       (AtReconcile(p) /\ StepOf(p) /\ procs[p].c1 = 1)
         => /\ procs'[p].pc # "raised"
            /\ procs'[p].model \in storage
            /\ KeyOf(procs'[p].model) = KeyOf(procs[p].model)
            /\ procs'[p].model.pk # NoPk
            /\ storage' = storage
  ]_vars

\* reconcile has just returned the stored row to a cycle
C17_Witness ==
  \E p \in Procs : /\ procs[p].pc \in {"s_calc", "r_save1"}
                   /\ procs[p].c1 = 1
                   /\ procs[p].model \in storage
                   /\ procs[p].model.val # 0

\* C18: when reconcile finds no stored row with the entity's identity-field
\* values, it returns the very same entity, unchanged, and storage is
\* unchanged.
C18_ZeroMatchesUnchanged ==
  [][\A p \in Procs :
       (/\ AtReconcile(p) /\ StepOf(p)
        /\ procs[p].c1 = 0
        /\ filtered_objects(procs[p].model, storage) = {})
         => /\ procs'[p].pc # "raised"
            /\ procs'[p].model = procs[p].model
            /\ storage' = storage
  ]_vars

\* reconcile has just returned a new entity as it was
C18_Witness ==
  \E p \in Procs : /\ procs[p].pc \in {"s_calc", "r_save1"}
                   /\ procs[p].c1 = 0
                   /\ procs[p].model.pk = NoPk
                   /\ procs[p].model \notin storage

\* an identity field the caller left unpinned has no candidate values
UnpinnedWithoutCandidates ==
  \E f \in DOMAIN selected_key_list : selected_key_list[f] = <<>>

\* C19: a partial specification that leaves an identity field unpinned while
\* the field has no candidate values is rejected: create() does not return
\* normally and nothing is computed.
C19_EmptyCandidatesRejected ==
  UnpinnedWithoutCandidates => (pc # "returned" /\ calcLog = <<>>)

\* C20: an attempt of the status hook whose submission to the transport
\* failed ends with the entity computed in place, and not in ERROR.
C20_DispatchFailureRunsLocally ==
  \A a \in EndedAttempts :
    a.mode = "unsent" => (a.computeReturned /\ a.final # ERROR)

\* the step is a begin of the caller: outside any context, inside one
BeginOutside == cpc = "start" /\ cpc' = "outer"
BeginInside == cpc = "outer" /\ cpc' = "child"

\* the operation ids in use anywhere before the step
IdsInUse == {operation_context[t].operation_id : t \in Threads}

RECURSIVE ReportedFailed(_)
ReportedFailed(k) ==
  IF k = 0 THEN <<>>
  ELSE ReportedFailed(k - 1) \o
       (IF task_results[k].state = "failed" THEN task_results[k].group ELSE <<>>)

\* what the step appends to the log of computations
NewlyComputed == SubSeq(calcLog', Len(calcLog) + 1, Len(calcLog'))

ClusterGroups == add_to_group(cluster_dict)

\* entity i is a member of group g
InGroup(g, i) == \E j \in DOMAIN g : g[j] = i

\* the groups hold every candidate once, and two candidates share a group
\* exactly when they agree on the parallelization fields
GroupsWellFormed ==
  /\ \A i \in DOMAIN models : \E g \in DOMAIN ClusterGroups : InGroup(ClusterGroups[g], i)
  /\ \A g \in DOMAIN ClusterGroups :
       \A j, k \in DOMAIN ClusterGroups[g] :
         ClusterGroups[g][j] = ClusterGroups[g][k] => j = k
  /\ \A g, h \in DOMAIN ClusterGroups :
       \A i \in Range(ClusterGroups[g]), j \in Range(ClusterGroups[h]) :
         SameParallelValues(models[i], models[j]) <=> g = h

\* C24: after a local execution of well-formed groups, every computation of
\* an entity of one group comes before every computation of an entity of a
\* later group, and the entities of one group are computed in the order in
\* which they were put into the group.
C24_LocalGroupByGroup ==
  (pc = "returned" /\ ~ CELERY_ACTIVE /\ GroupsWellFormed)
    => /\ \A g, h \in DOMAIN ClusterGroups :
            g < h => \A k, l \in DOMAIN calcLog :
                       (/\ InGroup(ClusterGroups[g], calcLog[k].i)
                        /\ InGroup(ClusterGroups[h], calcLog[l].i)) => k < l
       /\ \A g \in DOMAIN ClusterGroups :
            \A j, k \in DOMAIN ClusterGroups[g] :
              j < k => \A a, b \in DOMAIN calcLog :
                         (/\ calcLog[a].i = ClusterGroups[g][j]
                          /\ calcLog[b].i = ClusterGroups[g][k]) => a < b

\* create() is past reconciliation and has not run a computation yet
Reconciled == pc \in {"cluster", "route", "dispatch"}

\* C25 as stated: the reconciled entity agrees with the candidate of the
\* expansion on every parallelization field.
C25_ParallelValuesKept ==
  Reconciled =>
    \A i \in DOMAIN models : SameParallelValues(models[i], candidates[i])

\* C25, amended: reconciliation comes before grouping, and the reconciled
\* entity agrees with the candidate of the expansion on every identity
\* field, hence on every parallelization field that is an identity field.
C25_IdentityValuesKept ==
  /\ pc \in {"expand", "reconcile"} => cluster_dict = <<>> /\ groups = <<>>
  /\ Reconciled =>
       \A i \in DOMAIN models :
         /\ KeyOf(models[i]) = KeyOf(candidates[i])
         /\ \A j \in DOMAIN parallelizable_fields :
              parallelizable_fields[j] \in Range(defining_fields)
                => GetAttr(models[i], parallelizable_fields[j])
                     = GetAttr(candidates[i], parallelizable_fields[j])

\* a candidate took a stored row's place in the list and was grouped by a
\* parallelization field that is an identity field
C25_Witness ==
  /\ pc = "dispatch"
  /\ \E j \in DOMAIN parallelizable_fields :
       parallelizable_fields[j] \in Range(defining_fields)
  /\ \E i \in DOMAIN models :
       /\ models[i].pk # NoPk
       /\ candidates[i].pk = NoPk
       /\ \E g \in DOMAIN groups : InGroup(groups[g], i)

\* C26: every piece of work handed to the transport, by the status hook or by
\* create(), was handed over with distributed dispatch enabled and after a
\* probe of the transport had succeeded.
C26_SubmittedOnlyAfterProbe ==
  /\ \A t \in DOMAIN tasks : CELERY_ACTIVE /\ tasks[t].probed
  /\ \A t \in DOMAIN task_results : CELERY_ACTIVE /\ task_results[t].probed

\* C27: after a step in which update() raised inside a run of the hook in
\* place, the row is in storage with status ERROR; the status was written
\* with skip_hooks, and the exception reached the caller of save().
C27_ErrorPersistedAndKept ==
  \A a \in attempts :
    (a.mode = "sync" /\ a.computeRaised)
      => /\ db = ERROR
         /\ \E k \in DOMAIN persistLog : persistLog[k] = ERROR

\* C28: the row is never ABORTED and no step of the engine writes or reports
\* ABORTED; a step in which update() raised in place writes ERROR last, and
\* a task whose calculate() raised is closed with a status other than ABORTED.
C28_NeverAborted ==
  /\ db # ABORTED
  /\ \A k \in DOMAIN persistLog : persistLog[k] # ABORTED
  /\ \A k \in DOMAIN notifyLog : notifyLog[k] # ABORTED
  /\ \A t \in DOMAIN tasks : tasks[t].status # ABORTED /\ tasks[t].final # ABORTED
  /\ \A a \in attempts :
       a.computeRaised
         => persistLog # <<>> /\ persistLog[Len(persistLog)] = ERROR

\* update() raised in place and the row is ERROR, and a task whose
\* calculate() raised was closed by on_failure with the row ERROR
C28_Witness ==
  /\ \E a \in attempts : a.mode = "sync" /\ a.computeRaised /\ a.final = ERROR
  /\ db = ERROR
  /\ \E t \in DOMAIN tasks :
       tasks[t].pc = "closed" /\ tasks[t].computeRaised /\ tasks[t].final = ERROR

\* C29: no step of a dispatch cycle, in reconcile or in the local or remote
\* executor, removes a row: every row in storage before the step is in
\* storage after it under the same primary key, as it was or overwritten.
C29_NoRowDeleted ==
  [][\A r \in storage : \E q \in storage' : q.pk = r.pk]_vars

\* a cycle found a stored row with its entity's identity, computed, and ended
\* with that row overwritten by its result
C29_Witness ==
  \E p \in Procs :
    /\ procs[p].pc = "done"
    /\ procs[p].prior # NoPk
    /\ procs[p].model.pk = procs[p].prior
    /\ procs[p].model \in storage
    /\ procs[p].model.val = procs[p].calcNo

\* C30: after a step in which update() raised part-way in a run of the hook
\* in place: for an entity that has not opted out of atomic execution none of
\* update()'s writes is in storage and the row is ERROR; for an entity with
\* is_atomic false no atomic scope took the writes back, they are in storage.
C30_AtomicUnlessOptedOut ==
  \A a \in attempts :
    (a.mode = "sync" /\ a.computeRaised)
      => /\ klass.is_atomic => a.derived = "none" /\ db = ERROR
         /\ ~ klass.is_atomic => a.derived = "partial"

\* the outer operation has begun and has not ended
InOuterOperation == cpc \in {"outer", "child", "resumed"}

\* C31: from the begin of the outer operation to its end the caller's
\* context is active and nothing but the begin of the outer operation sets
\* its ids: also after a child operation has begun and ended inside it.
C31_ActiveUntilOuterEnd ==
  [][/\ InOuterOperation' => operation_context'["caller"].operation_id # ""
     /\ (InOuterOperation /\ InOuterOperation')
          => operation_context'["caller"] = operation_context["caller"]
  ]_vars

(***************************************************************************)
(* SpecBlocks: two threads entering and leaving RunInCelery blocks and     *)
(* calling lex_shared_task methods                                         *)
(***************************************************************************)
InitBlocks ==
  /\ defining_fields = <<>>
  /\ CELERY_ACTIVE = TRUE
  /\ IdleCreate
  /\ storage = {}
  /\ nextPk = 1
  /\ nCalc = 0
  /\ calcLog = <<>>
  /\ IdleSave
  /\ IdleHook
  /\ IdleRoute
  /\ IdleCtx
  /\ IdleBlocks

NextBlocks ==
  \E t \in BlockThreads :
    \/ BlockEnter(t)
    \/ BlockExit(t)
    \/ TaskCall(t)

SpecBlocks == InitBlocks /\ [][NextBlocks]_vars

\* C32: a direct call from a thread that is inside no RunInCelery block sees
\* no current context and runs in place, whatever blocks other threads are
\* inside; and a thread leaving a block removes that block's context from
\* the contexts in force, and no other.
C32_ContextLocalToThread ==
  [][/\ \A i \in DOMAIN lastCall' :
          lastCall'[i].inside = <<>>
            => lastCall'[i].mode = "sync" /\ lastCall'[i].context = <<>>
     /\ \A t \in BlockThreads :
          Len(entered'[t]) < Len(entered[t])
            => /\ task_context_stack # <<>>
               /\ task_context_stack[Len(task_context_stack)]
                    = entered[t][Len(entered[t])]
  ]_vars

\* this step ends p's calc_and_save turn at a model.save() that succeeded:
\* summary["processed_successfully"] += 1 (lines 644 and 668)
CountedProcessed(p) ==
  /\ procs[p].path = "remote"
  /\ procs[p].pc \in {"r_save2", "r_resave"}
  /\ procs'[p].pc = "done"

\* C33: every model calc_and_save counts as processed successfully, one saved
\* through the conflict-resolution branch included, has had calculate()
\* invoked on it before the save that ends its turn.
C33_CountedOnlyIfComputed ==
  [][\A p \in Procs : CountedProcessed(p) => procs[p].calcNo # 0]_vars

\* number of calculate() calls this process made on models[i]
LocalCalls(i) ==
  Cardinality({k \in DOMAIN calcLog : calcLog[k].i = i /\ calcLog[k].by = "local"})

\* number of calculate() calls workers made on the copies of models[i]
WorkerCalls(i) ==
  Cardinality({k \in DOMAIN calcLog : calcLog[k].i = i /\ calcLog[k].by = "worker"})

\* C34: within one create() call in distributed mode, calculate() is invoked
\* at most once by a worker and at most once locally on each candidate,
\* whatever dispatch, worker, wait and fallback failures occur.
C34_AtMostOnceLocally ==
  CELERY_ACTIVE =>
    \A i \in 1..Len(models) : LocalCalls(i) <= 1 /\ WorkerCalls(i) <= 1

\* the tasks whose completion handler has run
Closed == {t \in DOMAIN tasks : tasks[t].pc = "closed"}

\* C35: when on_success (on_failure) has run for a finished task, the row of
\* the task's entity has persisted status SUCCESS (ERROR), also when
\* notifying the observers failed: the handler leaves no row IN_PROGRESS.
C35_CallbackPersistsStatus ==
  \A t \in Closed :
    /\ tasks[t].final = tasks[t].status
    /\ tasks[t].final \in {SUCCESS, ERROR}

\* the synchronous attempts that ended inside the latest step
SyncAttempts == {a \in attempts : a.mode = "sync"}

\* how often the latest step wrote, and sent, a final status
FinalWrites == Count(persistLog, SUCCESS) + Count(persistLog, ERROR)
FinalNotices == Count(notifyLog, SUCCESS) + Count(notifyLog, ERROR)

\* C36: a step in which the status hook ran the computation in place wrote
\* the attempt's final status to the row exactly once and sent it to the
\* observers exactly once, whether update() returned or raised.
C36_FinalStatusOnce ==
  SyncAttempts # {} => FinalWrites = 1 /\ FinalNotices = 1

\* the arguments calculate() got in the calls a worker made
WorkerArgs == {calcLog[k].args : k \in {l \in DOMAIN calcLog : calcLog[l].by = "worker"}}

\* the arguments calculate() got in the calls this process made
LocalArgs == {calcLog[k].args : k \in {l \in DOMAIN calcLog : calcLog[l].by = "local"}}

\* C37: within one create() call, calculate() gets the extra positional
\* arguments of create() on a worker exactly as it gets them in local
\* execution.
C37_SameArgsOnBothPaths ==
  /\ \A a \in LocalArgs : a = args
  /\ \A a \in WorkerArgs : a = args

====
